---- MODULE Spec2Model ----
(***************************************************************************)
(* EloWardBot: the message hot path (config cache, rank cache, exemption,  *)
(* moderation executor), the in-chat command interpreter, the pub/sub      *)
(* subscriber and the two-shard join scheduler of class EloWardTwitchBot.  *)
(*                                                                         *)
(* Every async method is a coroutine: it runs atomically from one await on *)
(* network or timer I/O to the next (Node's single-threaded event loop).   *)
(* A coroutine in flight is a record of the bag "handlers"; its field pc   *)
(* names the await it is suspended at.                                     *)
(***************************************************************************)
EXTENDS Integers, Sequences, FiniteSets, Bags, TLC

\* ---------------------------------------------------------------- bounds
\* handleMessage invocations suspended at the same time, on the hot path
MaxHotHandlers == 1
\* ... and where commands race with enforcement and with the join scheduler
MaxHandlers == 2
\* clock steps taken in one behaviour
MaxTicks == 2
\* control-plane writes (policy versions) in one behaviour
MaxWrites == 2
\* loadChannels, restore and follow coroutines suspended at the same time
MaxTasks == 2
\* credentials the control plane issues after the one the bot starts with
MaxTokens == 1
\* chat lines sent in one behaviour of a specification that records delivery
MaxLines == 1
\* the value this.reconnectAttempts may reach in one behaviour
MaxAttempts == 3
\* connection failures in one behaviour, where reconnection is followed
MaxFailures == 2
\* this.maxChannelsPerConnection, scaled down (the program's value is 80)
maxChannelsPerConnection == 2
\* the rate window in join intervals, scaled down: the program's interval is
\* 667 ms and its window 10 s, 15 intervals
JoinWindow == 3
\* the JOINs allowed in one window, scaled with it: the program's pacing of
\* one JOIN per interval is 15 JOINs per 15 intervals
JoinLimit == JoinWindow

\* ------------------------------------------------------- program constants
\* executeTimeout: duration = config.timeout_seconds || 30
DefaultTimeoutSeconds == 30
\* handleSetCommand: Math.max(1, Math.min(1209600, parseInt(parts[3])))
MinTimeoutSeconds == 1
MaxTimeoutSeconds == 1209600
\* setCachedRank: expires = Date.now() + (hasRank ? 60000 : 30000)
\* this.maxReconnectDelay and the base of the backoff, in ms
maxReconnectDelay == 30000
BaseReconnectDelay == 1000
PositiveTtlMs == 60000
NegativeTtlMs == 30000

\* ------------------------------------------------------------ JS values
\* null / undefined
Null == [null |-> TRUE]
\* the value of a history variable in a specification that does not record it
Off == [off |-> TRUE]
Truthy(v) == v # Null

\* a JS number: a finite value, NaN or Infinity
Num(n) == [num |-> n]
NaN == [nan |-> TRUE]
Infinity == [inf |-> TRUE]

\* the decimal integer literals among the argument strings
IntegerLiterals ==
  "-5" :> (0 - 5) @@ "0" :> 0 @@ "1" :> 1 @@ "45" :> 45
    @@ "1209600" :> 1209600 @@ "1209601" :> 1209601 @@ "2000000" :> 2000000

\* Number(str), the conversion isNaN applies to its argument
Number(str) ==
  IF str \in DOMAIN IntegerLiterals THEN Num(IntegerLiterals[str])
  ELSE IF str = "Infinity" THEN Infinity
  ELSE IF str = "1e3" THEN Num(1000)
  ELSE NaN

isNaN(str) == Number(str) = NaN

\* parseInt(str): the longest prefix that is a decimal integer, else NaN
parseInt(str) ==
  IF str \in DOMAIN IntegerLiterals THEN Num(IntegerLiterals[str])
  ELSE IF str = "1e3" THEN Num(1)
  ELSE NaN

\* Math.min / Math.max of a finite number and a finite number or NaN
MathMin(a, b) ==
  IF a = NaN \/ b = NaN THEN NaN ELSE IF a.num <= b.num THEN a ELSE b
MathMax(a, b) ==
  IF a = NaN \/ b = NaN THEN NaN ELSE IF a.num >= b.num THEN a ELSE b

\* JSON.stringify of a number: NaN is written as null
JsonNumber(v) == IF v = NaN THEN Null ELSE v

\* Map.prototype.set / delete / has on a function with a partial domain
MapSet(m, k, v) == [x \in (DOMAIN m) \cup {k} |-> IF x = k THEN v ELSE m[x]]
MapDelete(m, k) == [x \in (DOMAIN m) \ {k} |-> m[x]]
MapHas(m, k) == k \in DOMAIN m
EmptyMap == [x \in {} |-> Null]

\* the static super-admin whitelist
superAdmins == {"yomata1"}

\* String.prototype.toUpperCase / toLowerCase on the strings the inputs use
\* (a string without lower-case, resp. upper-case, letters maps to itself)
upperCaseOf ==
  [iron |-> "IRON", bronze |-> "BRONZE", silver |-> "SILVER", gold |-> "GOLD",
   platinum |-> "PLATINUM", emerald |-> "EMERALD", diamond |-> "DIAMOND",
   master |-> "MASTER", grandmaster |-> "GRANDMASTER",
   challenger |-> "CHALLENGER", Gold |-> "GOLD", Master |-> "MASTER",
   wood |-> "WOOD", i |-> "I", ii |-> "II", iii |-> "III", iv |-> "IV",
   v |-> "V", x |-> "X", has_rank |-> "HAS_RANK", min_rank |-> "MIN_RANK"]

toUpperCase(str) == IF str \in DOMAIN upperCaseOf THEN upperCaseOf[str] ELSE str

lowerCaseOf ==
  [HAS_RANK |-> "has_rank", MIN_RANK |-> "min_rank", Min_Rank |-> "min_rank",
   ON |-> "on", OFF |-> "off", MODE |-> "mode", SET |-> "set",
   STATUS |-> "status", HELP |-> "help", TIMEOUT |-> "timeout",
   Timeout |-> "timeout"]

toLowerCase(str) == IF str \in DOMAIN lowerCaseOf THEN lowerCaseOf[str] ELSE str

\* a ChannelPolicy as config-get returns it ("" is an absent field); the
\* control plane fills timeout_seconds and both reason templates
Policy(enabled, mode, tier, div, ver) ==
  [bot_enabled |-> enabled, enforcement_mode |-> mode,
   min_rank_tier |-> tier, min_rank_division |-> div, version |-> ver,
   timeout_seconds |-> DefaultTimeoutSeconds,
   reason_has_rank |-> "tpl_has_rank", reason_min_rank |-> "tpl_min_rank"]

RankData(tier, div) == [rank_tier |-> tier, rank_division |-> div]

\* ------------------------------------------------------- rank comparator
tierValues ==
  [IRON |-> 0, BRONZE |-> 100, SILVER |-> 200, GOLD |-> 300, PLATINUM |-> 400,
   EMERALD |-> 500, DIAMOND |-> 600, MASTER |-> 700, GRANDMASTER |-> 800,
   CHALLENGER |-> 900]

divisionValues == [IV |-> 0, III |-> 25, II |-> 50, I |-> 75]

getRankValue(tier, division) ==
  LET tierValue == IF toUpperCase(tier) \in DOMAIN tierValues
                   THEN tierValues[toUpperCase(tier)] ELSE -1
  IN  IF tierValue = -1 THEN -1
      ELSE IF tierValue >= 700 THEN tierValue
      ELSE tierValue + (IF toUpperCase(division) \in DOMAIN divisionValues
                        THEN divisionValues[toUpperCase(division)] ELSE 0)

\* meetsMinimumRank with a strict comparison: a variant against which the
\* order properties are tested
meetsMinimumRankStrict(userTier, userDivision, minTier, minDivision) ==
  LET userValue == getRankValue(userTier, userDivision)
      minValue == getRankValue(minTier, minDivision)
  IN  IF userValue = -1 \/ minValue = -1 THEN TRUE
      ELSE userValue > minValue

meetsMinimumRank(userTier, userDivision, minTier, minDivision) ==
  LET userValue == getRankValue(userTier, userDivision)
      minValue == getRankValue(minTier, minDivision)
  IN  IF userValue = -1 \/ minValue = -1 THEN TRUE
      ELSE userValue >= minValue

\* shouldTimeoutUser without the returns for a missing minimum, missing
\* rank data and a missing tier, and with an unknown tier counted as below
\* the minimum: a variant against which the decision table is tested
shouldTimeoutUserFailClosed(rankResult, config) ==
  IF ~config.bot_enabled THEN FALSE
  ELSE LET mode == IF config.enforcement_mode = "" THEN "has_rank"
                   ELSE config.enforcement_mode
       IN  IF mode = "has_rank" THEN ~rankResult.hasRank
           ELSE IF mode = "min_rank" THEN
             IF ~rankResult.hasRank THEN TRUE
             ELSE IF ~Truthy(rankResult.rankData) THEN TRUE
             ELSE getRankValue(rankResult.rankData.rank_tier,
                               rankResult.rankData.rank_division)
                    < getRankValue(config.min_rank_tier,
                                   config.min_rank_division)
           ELSE FALSE

\* rankResult is [hasRank, rankData]; config is a non-null policy
shouldTimeoutUser(rankResult, config) ==
  IF ~config.bot_enabled THEN FALSE
  ELSE LET mode == IF config.enforcement_mode = "" THEN "has_rank"
                   ELSE config.enforcement_mode
       IN  IF mode = "has_rank" THEN ~rankResult.hasRank
           ELSE IF mode = "min_rank" THEN
             IF ~rankResult.hasRank THEN TRUE
             ELSE IF config.min_rank_tier = "" THEN FALSE
             ELSE IF ~Truthy(rankResult.rankData) THEN FALSE
             ELSE IF rankResult.rankData.rank_tier = "" THEN FALSE
             ELSE ~meetsMinimumRank(rankResult.rankData.rank_tier,
                                    rankResult.rankData.rank_division,
                                    config.min_rank_tier,
                                    config.min_rank_division)
           ELSE FALSE

\* ---------------------------------------------------------- role resolver
\* A PRIVMSG event: nick, the badge names of tags.badges (the text before
\* the "/" of each badge), the tags mod, subscriber, vip and user-type, and
\* the message split at spaces.
Event(nick, badges, mod, subscriber, vip, userType, parts) ==
  [nick |-> nick, badges |-> badges, mod |-> mod, subscriber |-> subscriber,
   vip |-> vip, userType |-> userType, parts |-> parts]

isSuperAdmin(login) == login \in superAdmins

getUserRoles(event, channelLogin) ==
  [isBroadcaster |-> "broadcaster" \in event.badges \/ event.nick = channelLogin,
   isModerator |-> "moderator" \in event.badges \/ event.mod = "1"
                   \/ event.userType = "mod",
   isSubscriber |-> "subscriber" \in event.badges \/ "founder" \in event.badges
                    \/ event.subscriber = "1",
   isVip |-> "vip" \in event.badges \/ event.vip = "1"]

\* isUserCommandPrivileged with subscribers and VIPs let in: a variant
\* against which the privilege property is tested
isUserCommandPrivilegedWithSubscriber(event, channelLogin) ==
  IF isSuperAdmin(event.nick) THEN TRUE
  ELSE LET roles == getUserRoles(event, channelLogin)
       IN  roles.isBroadcaster \/ roles.isModerator \/ roles.isSubscriber
             \/ roles.isVip

isUserCommandPrivileged(event, channelLogin) ==
  IF isSuperAdmin(event.nick) THEN TRUE
  ELSE LET roles == getUserRoles(event, channelLogin)
       IN  roles.isBroadcaster \/ roles.isModerator

isUserEnforcementExempt(event, channelLogin) ==
  IF isSuperAdmin(event.nick) THEN TRUE
  ELSE LET roles == getUserRoles(event, channelLogin)
       IN  roles.isBroadcaster \/ roles.isModerator \/ roles.isSubscriber

\* ------------------------------------------------------------------ state
VARIABLES
  configCache,       \* this.configCache: channel -> [config]
  rankCache,         \* this.rankCache: user -> [hasRank, rankData, expires]
  now,               \* Date.now(), in the resolution the rank TTLs need
  handlers,          \* bag of suspended handleMessage coroutines
  channels,          \* this.channels: channel -> [primary, secondary]
  expectedChannels,  \* this.expectedChannels, in insertion order
  existingChannels,  \* this.existingChannels
  tasks,             \* bag of suspended loadChannels / restore / follow coroutines
  shardState,        \* per IRC client: "connecting", "registered" or "closed"
  joined,            \* per IRC client: channels JOINed on its current session
  serverConfig,      \* control plane: channel -> policy or Null
  writes,            \* control plane: writes committed so far
  pubsub,            \* invalidation events published and not yet delivered
  acked,             \* history: per channel, the newest version whose
                     \* config-update has returned success to the bot
  joinLog,           \* history: per client, JOINs issued in each of the last
                     \* JoinWindow join intervals (Off: not recorded)
  lastSay,           \* history: the latest say, with the map entry it was sent under
  followLog,         \* history: [calls, loaded, first], the bag of
                     \* follow-endpoint calls by channel and the channels
                     \* of the first successful /channels fetch
  inbox,             \* per IRC client: PRIVMSG lines delivered to the session
                     \* and not yet handed to handleMessage (Off: not recorded)
  banLog,            \* history: [posts], the bag of POSTs to the bans endpoint,
                     \* one [line, conn, reason] each (Off: not recorded)
  calc,              \* one call of a pure function: [fn, args, done, ret]
                     \* (Off outside the specifications of pure functions)
  currentToken,      \* this.currentToken, as the number of the credential
  supervisor         \* this.reconnectAttempts, the client events and timers
                     \* pending, and the history of failures and of
                     \* connect calls with their passwords
                     \* (Off: reconnection not followed in detail)

vars == <<configCache, rankCache, now, handlers, channels, expectedChannels,
          existingChannels, tasks, shardState, joined, serverConfig, writes,
          pubsub, acked, joinLog, lastSay, followLog, inbox, banLog, calc,
          currentToken, supervisor>>

Conns == {"primary", "secondary"}

\* --------------------------------------------------------------- caches
getCachedConfig(cache, channelLogin) ==
  IF MapHas(cache, channelLogin) THEN cache[channelLogin].config
  ELSE Null

setCachedConfig(cache, channelLogin, config) ==
  MapSet(cache, channelLogin, [config |-> config])

\* getCachedRank without the comparison of Date.now() with the entry's
\* expiry: a variant against which the TTL property is tested
getCachedRankIgnoringExpiry(userLogin) ==
  IF MapHas(rankCache, userLogin)
  THEN [hasRank |-> rankCache[userLogin].hasRank,
        rankData |-> rankCache[userLogin].rankData]
  ELSE Null

getCachedRank(userLogin) ==
  IF MapHas(rankCache, userLogin) /\ now < rankCache[userLogin].expires
  THEN [hasRank |-> rankCache[userLogin].hasRank,
        rankData |-> rankCache[userLogin].rankData]
  ELSE Null

\* storedAt is not a field of the program's entry: it records the time of
\* the set, for the properties that speak of an entry's age
setCachedRank(cache, userLogin, hasRank, rankData) ==
  MapSet(cache, userLogin,
         [hasRank |-> hasRank, rankData |-> rankData,
          expires |-> now + (IF hasRank THEN PositiveTtlMs ELSE NegativeTtlMs),
          storedAt |-> now])

\* ------------------------------------------------------ connection routing
isConnectionForChannel(channelLogin, connection) ==
  IF ~MapHas(channels, channelLogin) THEN connection = "primary"
  ELSE channels[channelLogin][connection]

getClientForChannel(channelLogin) ==
  IF MapHas(channels, channelLogin) /\ channels[channelLogin].primary
    THEN "primary"
  ELSE IF MapHas(channels, channelLogin) /\ channels[channelLogin].secondary
    THEN "secondary"
  ELSE "primary"

\* ------------------------------------------------------------ IRC client
\* client.join: written to the socket of a registered session, dropped
\* otherwise; every call is counted in the client's current join interval.
JoinedAfter(connection, channelLogin) ==
  IF shardState[connection] = "registered"
  THEN [joined EXCEPT ![connection] = @ \cup {channelLogin}]
  ELSE joined

JoinLogAfter(connection) ==
  IF joinLog = Off THEN Off
  ELSE IF shardState[connection] # "registered" THEN joinLog
  ELSE [joinLog EXCEPT ![connection] =
          [@ EXCEPT ![1] = IF @ > JoinLimit THEN @ ELSE @ + 1]]

\* a follow request, recorded in log
FollowLogged(log, channelLogin) ==
  IF log = Off THEN Off
  ELSE [log EXCEPT !.calls = @ (+) SetToBag({channelLogin})]

FollowLogAfter(channelLogin) == FollowLogged(followLog, channelLogin)

\* the list of a successful /channels fetch, recorded when it is the first
FirstLoadLogged(list) ==
  IF followLog = Off THEN Off
  ELSE IF followLog.loaded THEN followLog
  ELSE [followLog EXCEPT !.loaded = TRUE, !.first = {list[i] : i \in 1..Len(list)}]

\* client.say, recorded with the membership entry at the time of the call
Said(client, channelLogin, text) ==
  IF lastSay = Off THEN Off ELSE
  [client |-> client, ch |-> channelLogin, text |-> text,
   entry |-> IF MapHas(channels, channelLogin)
             THEN channels[channelLogin] ELSE Null]

\* ------------------------------------------------------- coroutine records
\* received is not a local of the program: for set reason it records the
\* mode the control plane held when the line reached handleMessage
Handler(pc, channelLogin, event, connection) ==
  [pc |-> pc, ch |-> channelLogin, ev |-> event, conn |-> connection,
   config |-> Null, resp |-> Null,
   cfgOut |-> "none", rankOut |-> "none",
   cmd |-> "", client |-> "", text |-> "",
   line |-> 0, reason |-> Null, updates |-> Null, received |-> ""]

Remove(h) == handlers (-) SetToBag({h})
Replace(h, g) ==
  IF g.pc = "done" THEN Remove(h) ELSE Remove(h) (+) SetToBag({g})
Done(h) == [h EXCEPT !.pc = "done"]


\* normalizeDivision: '1'..'4' and 'I'..'IV' (any case) give the Roman
\* numeral, anything else its upper-case form
normalizeDivision(division) ==
  LET divisionMap ==
        "1" :> "I" @@ "2" :> "II" @@ "3" :> "III" @@ "4" :> "IV"
          @@ "I" :> "I" @@ "II" :> "II" @@ "III" :> "III" @@ "IV" :> "IV"
  IN  IF toUpperCase(division) \in DOMAIN divisionMap
      THEN divisionMap[toUpperCase(division)]
      ELSE toUpperCase(division)

\* ------------------------------------------------- enforcement pipeline
\* the text buildTimeoutReason returns when it finds no template
ConfigurationErrorReason ==
  [text |-> "Configuration error - please contact the streamer"]

\* buildTimeoutReason: the hard-coded text when the active mode has no
\* template, else the template with its substitutions (the rendered text is
\* the template together with the values put into it)
buildTimeoutReason(config, userLogin) ==
  LET mode == toLowerCase(IF config.enforcement_mode = "" THEN "has_rank"
                          ELSE config.enforcement_mode)
      duration == IF config.timeout_seconds = 0 THEN DefaultTimeoutSeconds
                  ELSE config.timeout_seconds
      template == IF mode = "min_rank" THEN config.reason_min_rank
                  ELSE config.reason_has_rank
      minTier == toUpperCase(config.min_rank_tier)
      div == toUpperCase(config.min_rank_division)
      divisionText == IF minTier # ""
                         /\ minTier \notin {"MASTER", "GRANDMASTER", "CHALLENGER"}
                         /\ div # ""
                      THEN div ELSE ""
  IN  IF template = "" THEN ConfigurationErrorReason
      ELSE [template |-> template, seconds |-> duration, user |-> userLogin,
            tier |-> minTier, division |-> divisionText]

\* executeTimeout up to its first await (the users lookup)
ExecuteTimeoutStart(h) ==
  IF isSuperAdmin(h.ev.nick) THEN Done(h)
  ELSE IF isUserEnforcementExempt(h.ev, h.ch) THEN Done(h)
  ELSE [h EXCEPT !.pc = "getTwitchUserInfo",
                 !.reason = buildTimeoutReason(h.config, h.ev.nick)]

\* handleMessage, step 4: the decision on a rank result
AfterRank(h, rankResult) ==
  IF shouldTimeoutUser(rankResult, h.config)
  THEN ExecuteTimeoutStart(h)
  ELSE Done(h)

\* AfterConfig without the exemption return of step 2: a variant against
\* which the exemption property is tested
AfterConfigIgnoringExemption(h, config) ==
  IF ~(Truthy(config) /\ config.bot_enabled) THEN Done(h)
  ELSE LET g == [h EXCEPT !.config = config]
           r == getCachedRank(h.ev.nick)
       IN  IF Truthy(r) THEN AfterRank(g, r)
           ELSE [g EXCEPT !.pc = "fetchUserRank"]

\* AfterConfig without the standby return of step 1: a variant against
\* which the standby property is tested
AfterConfigIgnoringStandby(h, config) ==
  IF ~Truthy(config) THEN Done(h)
  ELSE IF isUserEnforcementExempt(h.ev, h.ch) THEN Done(h)
  ELSE LET g == [h EXCEPT !.config = config]
           r == getCachedRank(h.ev.nick)
       IN  IF Truthy(r) THEN AfterRank(g, r)
           ELSE [g EXCEPT !.pc = "fetchUserRank"]

\* handleMessage, steps 1 (end) to 3: standby, exemption, rank cache
AfterConfig(h, config) ==
  IF ~(Truthy(config) /\ config.bot_enabled) THEN Done(h)
  ELSE IF isUserEnforcementExempt(h.ev, h.ch) THEN Done(h)
  ELSE LET g == [h EXCEPT !.config = config]
           r == getCachedRank(h.ev.nick)
       IN  IF Truthy(r) THEN AfterRank(g, r)
           ELSE [g EXCEPT !.pc = "fetchUserRank"]

\* fetchUserRank's return value for each outcome of the request
fetchUserRankResult(outcome, data) ==
  IF outcome = "ok" THEN [hasRank |-> TRUE, rankData |-> data]
  ELSE IF outcome = "neterr" THEN [hasRank |-> TRUE, rankData |-> Null]
  ELSE [hasRank |-> FALSE, rankData |-> Null]

\* fetchChannelConfig's return value for a response
fetchChannelConfigResult(resp) ==
  IF resp.status = "ok" THEN resp.body ELSE Null

\* ------------------------------------------------------- sendChatMessage
\* sendChatMessage called by coroutine h, whose record in the bag is old.
\* Sets handlers, channels, joined, joinLog and lastSay.
SendChatMessage(old, h, text) ==
  LET client == getClientForChannel(h.ch)
      hasEntry == MapHas(channels, h.ch)
  IN  IF ~hasEntry \/ (~channels[h.ch].primary /\ ~channels[h.ch].secondary)
      THEN /\ joined' = JoinedAfter("primary", h.ch)
           /\ joinLog' = JoinLogAfter("primary")
           /\ channels' = MapSet(channels, h.ch,
                                 [primary |-> TRUE, secondary |-> FALSE])
           /\ handlers' = Replace(old, [h EXCEPT !.pc = "sayDelay",
                                                !.client = client,
                                                !.text = text])
           /\ UNCHANGED lastSay
      ELSE /\ lastSay' = Said(client, h.ch, text)
           /\ handlers' = Remove(old)
           /\ UNCHANGED <<channels, joined, joinLog>>

\* sendChatMessage after its 300 ms delay: client.say on the client chosen
\* before the delay
SayDelayResume(h) ==
  /\ h \in BagToSet(handlers)
  /\ h.pc = "sayDelay"
  /\ lastSay' = Said(h.client, h.ch, h.text)
  /\ handlers' = Remove(h)
  /\ UNCHANGED <<configCache, rankCache, now, supervisor, currentToken, inbox, banLog, calc, channels, expectedChannels,
                 existingChannels, tasks, shardState, joined, serverConfig,
                 writes, pubsub, acked, joinLog, followLog>>

\* ------------------------------------------------------ command interpreter
\* validTiers with one tier too many: a variant against which the
\* validation of set min_rank is tested
ValidTierNamesAndWood ==
  {"IRON", "BRONZE", "SILVER", "GOLD", "PLATINUM", "EMERALD", "DIAMOND",
   "MASTER", "GRANDMASTER", "CHALLENGER", "WOOD"}

\* handleSetCommand's validTiers
ValidTierNames ==
  {"IRON", "BRONZE", "SILVER", "GOLD", "PLATINUM", "EMERALD", "DIAMOND",
   "MASTER", "GRANDMASTER", "CHALLENGER"}

\* the fields each mutating command sends to config-update
UpdatesOf(cmd) ==
  IF cmd = "on" THEN [bot_enabled |-> TRUE]
  ELSE IF cmd = "off" THEN [bot_enabled |-> FALSE]
  ELSE IF cmd = "mode_has_rank" THEN [enforcement_mode |-> "has_rank"]
  ELSE [enforcement_mode |-> "min_rank"]

\* the reply of a command that ends with getCurrentConfig and one say
ReplyWithConfig(cmd, config) ==
  IF cmd = "on" THEN "awake"
  ELSE IF cmd = "mode_min_rank" THEN "mode_min_rank"
  ELSE IF cmd = "status" THEN
    (IF Truthy(config) THEN "detailed_status" ELSE "not_configured")
  ELSE IF ~Truthy(config) \/ ~config.bot_enabled THEN "not_enforcing"
  ELSE "restricted"

\* the reply of a command that ends right after its config-update
ReplyAfterUpdate(cmd) ==
  IF cmd = "off" THEN "sleeping"
  ELSE IF cmd = "set_timeout" THEN "timeout_set"
  ELSE IF cmd = "set_min_rank" THEN "min_rank_set"
  ELSE IF cmd = "set_reason" THEN "reason_set"
  ELSE "mode_has_rank"

\* parts.slice(3).join(' ').replace(/"/g, '').trim() on the reason texts
\* the inputs use
ReasonText(parts) ==
  LET words == SubSeq(parts, 4, Len(parts))
  IN  IF words = <<"\"\"">> THEN ""
      ELSE IF Len(words) = 1 THEN words[1]
      ELSE IF words = <<"rank", "up">> THEN "rank up"
      ELSE "joined words"

\* currentConfig?.enforcement_mode || 'has_rank'
ActiveMode(config) ==
  IF ~Truthy(config) \/ config.enforcement_mode = "" THEN "has_rank"
  ELSE config.enforcement_mode

\* what a command does with the policy getCurrentConfig returned: set
\* reason sends the template of the policy's mode to config-update, every
\* other command says its reply
AfterCurrentConfig(old, h, config) ==
  IF h.cmd = "set_reason"
  THEN LET mode == ActiveMode(config)
           reason == ReasonText(h.ev.parts)
       IN  /\ handlers' = Replace(old, [h EXCEPT
                !.pc = "updateChannelConfig",
                !.resp = Null,
                !.updates = IF mode = "min_rank"
                            THEN [reason_min_rank |-> reason]
                            ELSE [reason_has_rank |-> reason]])
           /\ UNCHANGED <<channels, joined, joinLog, lastSay>>
  ELSE SendChatMessage(old, h, ReplyWithConfig(h.cmd, config))

\* getCurrentConfig and what follows it, reading cache `cache`
GetCurrentConfigThenSay(old, h, cache) ==
  LET config == getCachedConfig(cache, h.ch)
  IN  IF Truthy(config)
      THEN AfterCurrentConfig(old, h, config)
      ELSE /\ handlers' = Replace(old, [h EXCEPT !.pc = "getCurrentConfig",
                                                  !.resp = Null])
           /\ UNCHANGED <<channels, joined, joinLog, lastSay>>

\* handleSetCommand up to its first await.
\* Sets handlers, channels, joined, joinLog and lastSay.
HandleSetCommand(h) ==
  LET parts == h.ev.parts
      subcommand == IF Len(parts) >= 3 THEN toLowerCase(parts[3]) ELSE ""
      arg == IF Len(parts) >= 4 THEN parts[4] ELSE ""
      arg2 == IF Len(parts) >= 5 THEN parts[5] ELSE ""
      Update(cmd, updates) ==
        /\ handlers' = Replace(h, [h EXCEPT !.pc = "updateChannelConfig",
                                            !.cmd = cmd,
                                            !.updates = updates])
        /\ UNCHANGED <<channels, joined, joinLog, lastSay>>
  IN  IF subcommand = "timeout" THEN
        IF arg # "" /\ ~isNaN(arg)
        THEN LET seconds == MathMax(Num(MinTimeoutSeconds),
                              MathMin(Num(MaxTimeoutSeconds), parseInt(arg)))
             IN  Update("set_timeout", [timeout_seconds |-> JsonNumber(seconds)])
        ELSE SendChatMessage(h, h, "usage_timeout")
      ELSE IF subcommand = "min_rank" THEN
        IF arg # ""
        THEN LET tier == toUpperCase(arg)
                 divisionInput == IF arg2 # "" THEN normalizeDivision(arg2)
                                  ELSE ""
             IN  IF tier \notin ValidTierNames
                   THEN SendChatMessage(h, h, "invalid_tier")
                 ELSE IF tier \in {"MASTER", "GRANDMASTER", "CHALLENGER"}
                   THEN Update("set_min_rank", [min_rank_tier |-> tier,
                                                min_rank_division |-> "I"])
                 ELSE IF divisionInput = ""
                   THEN SendChatMessage(h, h, "requires_division")
                 ELSE IF divisionInput \notin {"I", "II", "III", "IV"}
                   THEN SendChatMessage(h, h, "invalid_division")
                 ELSE Update("set_min_rank", [min_rank_tier |-> tier,
                                              min_rank_division |-> divisionInput])
        ELSE SendChatMessage(h, h, "usage_min_rank")
      ELSE IF subcommand = "reason" THEN
        IF Len(parts) > 3
        THEN IF ReasonText(parts) # ""
             THEN GetCurrentConfigThenSay(h,
                    [h EXCEPT !.cmd = "set_reason",
                              !.received = ActiveMode(serverConfig[h.ch])],
                    configCache)
             ELSE SendChatMessage(h, h, "provide_reason")
        ELSE SendChatMessage(h, h, "usage_reason")
      ELSE SendChatMessage(h, h, "unknown_subcommand")

\* handleChatCommand up to its first await.
\* Sets handlers, channels, joined, joinLog and lastSay.
HandleChatCommand(h) ==
  LET parts == h.ev.parts
      command == IF Len(parts) >= 2 THEN toLowerCase(parts[2]) ELSE ""
      isPrivileged == isUserCommandPrivileged(h.ev, h.ch)
      arg == IF Len(parts) >= 3 THEN parts[3] ELSE ""
  IN  IF command = "" THEN
        GetCurrentConfigThenSay(h, [h EXCEPT !.cmd = "base"], configCache)
      ELSE IF command = "help" THEN SendChatMessage(h, h, "help")
      ELSE IF ~isPrivileged THEN SendChatMessage(h, h, "no_permission")
      ELSE IF command \in {"on", "off"}
                \/ (command = "mode" /\ arg \in {"has_rank", "min_rank"}) THEN
        LET cmd == IF command # "mode" THEN command
                   ELSE IF arg = "has_rank" THEN "mode_has_rank"
                   ELSE "mode_min_rank"
        IN  /\ handlers' = Replace(h, [h EXCEPT
                 !.pc = "updateChannelConfig",
                 !.cmd = cmd,
                 !.updates = UpdatesOf(cmd)])
            /\ UNCHANGED <<channels, joined, joinLog, lastSay>>
      ELSE IF command = "mode" THEN SendChatMessage(h, h, "invalid_mode")
      ELSE IF command = "set" THEN HandleSetCommand(h)
      ELSE IF command = "status" THEN
        GetCurrentConfigThenSay(h, [h EXCEPT !.cmd = "status"], configCache)
      ELSE SendChatMessage(h, h, "unknown_command")

\* ---------------------------------------------------------- handleMessage
\* A PRIVMSG of a joined channel arrives on a registered client:
\* handleMessage up to its first await, for the chat line numbered `line`.
HandleMessageLine(event, channelLogin, connection, line) ==
  /\ shardState[connection] = "registered"
  /\ channelLogin \in joined[connection]
  /\ LET h == [Handler("start", channelLogin, event, connection)
                 EXCEPT !.line = line]
         onThisConn == isConnectionForChannel(channelLogin, connection)
         config == getCachedConfig(configCache, channelLogin)
     IN  IF Head(event.parts) = "!eloward" /\ onThisConn
           THEN HandleChatCommand(h)
         ELSE IF event.parts = <<"!commands">> /\ onThisConn
           THEN SendChatMessage(h, h, "commands")
         ELSE /\ handlers' = Replace(h,
                   IF Truthy(config) THEN AfterConfig(h, config)
                   ELSE [h EXCEPT !.pc = "fetchChannelConfig"])
              /\ UNCHANGED <<channels, joined, joinLog, lastSay>>
  /\ UNCHANGED <<configCache, rankCache, now, supervisor, currentToken, banLog, calc, expectedChannels,
                 existingChannels, tasks, shardState, serverConfig, writes,
                 pubsub, acked, followLog>>

\* handleMessage for a chat line whose delivery is not recorded
HandleMessage(event, channelLogin, connection) ==
  /\ HandleMessageLine(event, channelLogin, connection, 0)
  /\ UNCHANGED inbox

\* A viewer sends one chat line to a channel: Twitch delivers it as a
\* PRIVMSG to every registered session that has JOINed the channel.
Privmsg(event, channelLogin) ==
  /\ inbox # Off
  /\ inbox.sent < MaxLines
  /\ \E c \in Conns : shardState[c] = "registered" /\ channelLogin \in joined[c]
  /\ LET m == [line |-> inbox.sent + 1, ev |-> event, ch |-> channelLogin]
         Delivered(c) == IF shardState[c] = "registered"
                            /\ channelLogin \in joined[c]
                         THEN Append(inbox[c], m) ELSE inbox[c]
     IN  inbox' = [sent |-> inbox.sent + 1,
                   primary |-> Delivered("primary"),
                   secondary |-> Delivered("secondary")]
  /\ UNCHANGED <<configCache, rankCache, now, supervisor, currentToken, banLog, calc, handlers, channels,
                 expectedChannels, existingChannels, tasks, shardState, joined,
                 serverConfig, writes, pubsub, acked, joinLog, lastSay,
                 followLog>>

\* the 'privmsg' listener of one client runs handleMessage on the oldest
\* PRIVMSG its session holds
OnPrivmsg(connection) ==
  /\ inbox # Off
  /\ inbox[connection] # <<>>
  /\ LET m == Head(inbox[connection])
     IN  HandleMessageLine(m.ev, m.ch, connection, m.line)
  /\ inbox' = [inbox EXCEPT ![connection] = Tail(@)]

\* ------------------------------------------------ control-plane requests
\* crypto.createHmac('sha256', HMAC_SECRET).update(payload).digest('hex'):
\* the digest stands for the payload it was computed over
HmacSha256Hex(payload) == [hmac |-> payload]

signRequest(method, path, body) ==
  LET timestamp == now \div 1000
      payload == <<timestamp, method, path, body>>
  IN  ("X-HMAC-Signature" :> HmacSha256Hex(payload))
        @@ ("X-Timestamp" :> [text |-> timestamp])
        @@ ("Content-Type" :> [text |-> "application/json"])

\* fetch(url, {method, headers, body}); fetch(url) is a GET without body
\* and without headers of the program's
Fetch(method, path, body, headers) ==
  [method |-> method, path |-> path, body |-> body, headers |-> headers]

FetchUrl(path) == Fetch("GET", path, Null, <<>>)

\* the request each suspended coroutine is waiting on, as its function
\* built it
RequestOfHandler(h) ==
  IF h.pc \in {"fetchChannelConfig", "getCurrentConfig"}
    THEN LET path == "/bot/config-get"
             body == [channel_login |-> h.ch]
         IN  {Fetch("POST", path, body, signRequest("POST", path, body))}
  ELSE IF h.pc = "fetchUserRank"
    THEN LET path == "/rank:get"
             body == [user_login |-> h.ev.nick]
         IN  {Fetch("POST", path, body, signRequest("POST", path, body))}
  ELSE IF h.pc = "updateChannelConfig"
    THEN LET path == "/bot/config-update"
             body == [channel_login |-> h.ch, fields |-> h.updates]
         IN  {Fetch("POST", path, body, signRequest("POST", path, body))}
  ELSE {}

RequestOfTask(t) ==
  IF t.pc = "fetchChannels" THEN {FetchUrl("/channels")}
  ELSE IF t.pc \in {"followChannel", "loadFollow"}
    THEN LET path == "/bot/follow-channel"
             body == [channel_login |-> t.list[t.i]]
         IN  {Fetch("POST", path, body, signRequest("POST", path, body))}
  ELSE {}

RequestsInFlight ==
  UNION ({RequestOfHandler(h) : h \in BagToSet(handlers)}
           \cup {RequestOfTask(t) : t \in BagToSet(tasks)})

\* --------------------------------------------------------- control plane
\* the policy config-update creates for a channel that has none
DefaultPolicy == Policy(FALSE, "has_rank", "", "", 0)

\* a JSON number is stored as its value, null as an absent field
ApplyFields(policy, fields, version) ==
  [k \in DOMAIN policy |->
     IF k = "version" THEN version
     ELSE IF k \notin DOMAIN fields THEN policy[k]
     ELSE IF k = "timeout_seconds"
       THEN (IF Truthy(fields[k]) THEN fields[k].num ELSE 0)
     ELSE fields[k]]

InvalidationEvent(channelLogin) ==
  [type |-> "config_update", channel_login |-> channelLogin]

\* The control plane answers a config-get: 200 with the policy it holds now,
\* 404 when it holds none, or the request fails (5xx, network error).
ConfigGetServe(h, outcome) ==
  /\ h \in BagToSet(handlers)
  /\ h.pc \in {"fetchChannelConfig", "getCurrentConfig"}
  /\ h.resp = Null
  /\ handlers' = Replace(h, [h EXCEPT !.resp =
       IF outcome # "ok" THEN [status |-> outcome, body |-> Null]
       ELSE IF Truthy(serverConfig[h.ch])
         THEN [status |-> "ok", body |-> serverConfig[h.ch]]
       ELSE [status |-> "404", body |-> Null]])
  /\ UNCHANGED <<configCache, rankCache, now, supervisor, currentToken, inbox, banLog, calc, channels, expectedChannels,
                 existingChannels, tasks, shardState, joined, serverConfig,
                 writes, pubsub, acked, joinLog, lastSay, followLog>>

\* The control plane answers a config-update: it commits the write and
\* publishes the invalidation, or the request fails.
ConfigUpdateServe(h, outcome) ==
  /\ h \in BagToSet(handlers)
  /\ h.pc = "updateChannelConfig"
  /\ h.resp = Null
  /\ IF outcome = "ok"
     THEN /\ writes < MaxWrites
          /\ writes' = writes + 1
          /\ serverConfig' = [serverConfig EXCEPT ![h.ch] =
               ApplyFields(IF Truthy(@) THEN @ ELSE DefaultPolicy,
                           h.updates, writes + 1)]
          /\ pubsub' = Append(pubsub, InvalidationEvent(h.ch))
          /\ handlers' = Replace(h, [h EXCEPT !.resp =
               [status |-> "ok", body |-> [version |-> writes + 1]]])
     ELSE /\ handlers' = Replace(h, [h EXCEPT !.resp =
               [status |-> outcome, body |-> Null]])
          /\ UNCHANGED <<serverConfig, writes, pubsub>>
  /\ UNCHANGED <<configCache, rankCache, now, supervisor, currentToken, inbox, banLog, calc, channels, expectedChannels,
                 existingChannels, tasks, shardState, joined, acked, joinLog,
                 lastSay, followLog>>

\* A write made outside the bot (the dashboard): committed and published.
DashboardWrite(channelLogin, fields) ==
  /\ writes < MaxWrites
  /\ writes' = writes + 1
  /\ serverConfig' = [serverConfig EXCEPT ![channelLogin] =
       ApplyFields(IF Truthy(@) THEN @ ELSE DefaultPolicy, fields, writes + 1)]
  /\ pubsub' = Append(pubsub, InvalidationEvent(channelLogin))
  /\ UNCHANGED <<configCache, rankCache, now, supervisor, currentToken, inbox, banLog, calc, handlers, channels,
                 expectedChannels, existingChannels, tasks, shardState, joined,
                 acked, joinLog, lastSay, followLog>>

\* ------------------------------------------------ handleMessage, resumed
\* fetchChannelConfig returns in handleMessage: the miss-fill and steps 1-4
ConfigFetchResume(h) ==
  /\ h \in BagToSet(handlers)
  /\ h.pc = "fetchChannelConfig"
  /\ h.resp # Null
  /\ LET config == fetchChannelConfigResult(h.resp)
     IN  /\ configCache' = setCachedConfig(configCache, h.ch, config)
         /\ handlers' = Replace(h, AfterConfig(
              [h EXCEPT !.cfgOut = h.resp.status, !.resp = Null], config))
  /\ UNCHANGED <<rankCache, now, supervisor, currentToken, inbox, banLog, calc, channels, expectedChannels, existingChannels,
                 tasks, shardState, joined, serverConfig, writes, pubsub,
                 acked, joinLog, lastSay, followLog>>

\* fetchUserRank returns in handleMessage: the cache fill and step 4
RankFetchResume(h, outcome, data) ==
  /\ h \in BagToSet(handlers)
  /\ h.pc = "fetchUserRank"
  /\ outcome = "ok" \/ data = Null
  /\ LET fetchedRank == fetchUserRankResult(outcome, data)
     IN  /\ rankCache' = setCachedRank(rankCache, h.ev.nick,
                                       fetchedRank.hasRank, fetchedRank.rankData)
         /\ handlers' = Replace(h, AfterRank([h EXCEPT !.rankOut = outcome],
                                             fetchedRank))
  /\ UNCHANGED <<configCache, now, supervisor, currentToken, inbox, banLog, calc, channels, expectedChannels,
                 existingChannels, tasks, shardState, joined, serverConfig,
                 writes, pubsub, acked, joinLog, lastSay, followLog>>

\* ------------------------------------------------ executeTimeout, resumed
\* getTwitchUserInfo returns: all three ids, or an id is missing, or the
\* request failed (null; a 401 or 403 is one of the failures)
UserInfoResume(h, outcome) ==
  /\ h \in BagToSet(handlers)
  /\ h.pc = "getTwitchUserInfo"
  /\ handlers' = Replace(h, IF outcome = "ok"
                            THEN [h EXCEPT !.pc = "isModeratorViaHelix"]
                            ELSE Done(h))
  /\ UNCHANGED <<configCache, rankCache, now, supervisor, currentToken, inbox, banLog, calc, channels, expectedChannels,
                 existingChannels, tasks, shardState, joined, serverConfig,
                 writes, pubsub, acked, joinLog, lastSay, followLog>>

\* the record of one POST to moderation/bans
BanLogAfter(h) ==
  IF banLog = Off THEN Off
  ELSE [posts |-> banLog.posts (+) SetToBag({[line |-> h.line,
                                              conn |-> h.conn,
                                              reason |-> h.reason]})]

\* isModeratorViaHelix with its answer ignored, the ban POSTed in every
\* case: a variant against which the moderator recheck is tested
ModCheckResumeIgnoringList(h, outcome) ==
  /\ h \in BagToSet(handlers)
  /\ h.pc = "isModeratorViaHelix"
  /\ handlers' = Replace(h, [h EXCEPT !.pc = "postBans"])
  /\ banLog' = BanLogAfter(h)
  /\ UNCHANGED <<configCache, rankCache, now, supervisor, currentToken, inbox, calc, channels, expectedChannels,
                 existingChannels, tasks, shardState, joined, serverConfig,
                 writes, pubsub, acked, joinLog, lastSay, followLog>>

\* isModeratorViaHelix returns: listed aborts, anything else (not listed,
\* a failure, a 401 or 403) POSTs the ban
ModCheckResume(h, outcome) ==
  /\ h \in BagToSet(handlers)
  /\ h.pc = "isModeratorViaHelix"
  /\ handlers' = Replace(h, IF outcome = "listed" THEN Done(h)
                            ELSE [h EXCEPT !.pc = "postBans"])
  /\ banLog' = IF outcome = "listed" THEN banLog ELSE BanLogAfter(h)
  /\ UNCHANGED <<configCache, rankCache, now, supervisor, currentToken, inbox, calc, channels, expectedChannels,
                 existingChannels, tasks, shardState, joined, serverConfig,
                 writes, pubsub, acked, joinLog, lastSay, followLog>>

\* the POST to moderation/bans returns: logged, never retried
BansResume(h) ==
  /\ h \in BagToSet(handlers)
  /\ h.pc = "postBans"
  /\ handlers' = Remove(h)
  /\ UNCHANGED <<configCache, rankCache, now, supervisor, currentToken, inbox, banLog, calc, channels, expectedChannels,
                 existingChannels, tasks, shardState, joined, serverConfig,
                 writes, pubsub, acked, joinLog, lastSay, followLog>>

\* ------------------------------------------------------ commands, resumed
Max(a, b) == IF a >= b THEN a ELSE b

\* updateChannelConfig returns in handleChatCommand: the cache delete on
\* success, then the rest of the command
ConfigUpdateResume(h) ==
  /\ h \in BagToSet(handlers)
  /\ h.pc = "updateChannelConfig"
  /\ h.resp # Null
  /\ LET ok == h.resp.status = "ok"
         cache == IF ok THEN MapDelete(configCache, h.ch) ELSE configCache
         g == [h EXCEPT !.resp = Null, !.cfgOut = h.resp.status]
     IN  /\ configCache' = cache
         /\ acked' = IF ok /\ acked # Off
                     THEN [acked EXCEPT ![h.ch] = Max(@, h.resp.body.version)]
                     ELSE acked
         /\ IF h.cmd \in {"on", "mode_min_rank"}
            THEN GetCurrentConfigThenSay(h, g, cache)
            ELSE SendChatMessage(h, g, ReplyAfterUpdate(h.cmd))
  /\ UNCHANGED <<rankCache, now, supervisor, currentToken, inbox, banLog, calc, expectedChannels, existingChannels, tasks,
                 shardState, serverConfig, writes, pubsub, followLog>>

\* fetchChannelConfig returns in getCurrentConfig: cached when non-null,
\* then the command's reply
CurrentConfigResume(h) ==
  /\ h \in BagToSet(handlers)
  /\ h.pc = "getCurrentConfig"
  /\ h.resp # Null
  /\ LET config == fetchChannelConfigResult(h.resp)
     IN  /\ configCache' = IF Truthy(config)
                           THEN setCachedConfig(configCache, h.ch, config)
                           ELSE configCache
         /\ AfterCurrentConfig(h, [h EXCEPT !.resp = Null], config)
  /\ UNCHANGED <<rankCache, now, supervisor, currentToken, inbox, banLog, calc, expectedChannels, existingChannels, tasks,
                 shardState, serverConfig, writes, pubsub, acked, followLog>>

\* ------------------------------------------------------------------ clock
ClockTick ==
  /\ now < MaxTicks * NegativeTtlMs
  /\ now' = now + NegativeTtlMs
  /\ UNCHANGED <<configCache, rankCache, handlers, channels, expectedChannels,
                 existingChannels, tasks, shardState, joined, serverConfig,
                 writes, pubsub, acked, joinLog, lastSay, followLog, inbox,
                 banLog, calc, currentToken, supervisor>>


\* one run of the sweeper started by startConfigSweep: every rank cache
\* entry whose expiry has passed is deleted
ConfigSweep ==
  /\ \E u \in DOMAIN rankCache : now >= rankCache[u].expires
  /\ rankCache' = [u \in {x \in DOMAIN rankCache : now < rankCache[x].expires}
                     |-> rankCache[u]]
  /\ UNCHANGED <<configCache, now, supervisor, currentToken, handlers, channels, expectedChannels,
                 existingChannels, tasks, shardState, joined, serverConfig,
                 writes, pubsub, acked, joinLog, lastSay, followLog, inbox,
                 banLog, calc>>

\* ------------------------------------------------------- join scheduler
Min(a, b) == IF a <= b THEN a ELSE b

SeqToSet(q) == {q[i] : i \in 1..Len(q)}

\* Set.prototype.add on a Set kept in insertion order
SetAdd(q, x) == IF x \in SeqToSet(q) THEN q ELSE Append(q, x)

\* Array.prototype.slice(from) with a 0-based start
SliceFrom(q, from) == SubSeq(q, from + 1, Len(q))

primaryCount == Cardinality({c \in DOMAIN channels : channels[c].primary})
secondaryCount == Cardinality({c \in DOMAIN channels : channels[c].secondary})

Task(kind, pc, list, i, first) ==
  [kind |-> kind, pc |-> pc, list |-> list, i |-> i, first |-> first,
   wait |-> FALSE]

FollowTask(channelLogin) == Task("follow", "followChannel", <<channelLogin>>, 1, FALSE)

\* the client loadChannels uses for the channel at 1-based position i
LoadConn(i) == IF i <= maxChannelsPerConnection THEN "primary" ELSE "secondary"

\* the positions loadChannels walks: slice(0, max) then slice(max, 2 * max)
LoadEnd(list) == Min(Len(list), 2 * maxChannelsPerConnection)

\* --------------------------------------------------------------- pub/sub
\* the subscriber's choice with the primary preferred whenever it has
\* space: a variant against which the choice of the less loaded shard is
\* tested
PubSubConnectionPrimaryFirst(pCount, sCount) ==
  IF pCount < maxChannelsPerConnection THEN "primary"
  ELSE IF sCount < maxChannelsPerConnection THEN "secondary"
  ELSE "none"

\* the client the subscriber joins a new channel on, for the two counts
\* it takes from this.channels ("none": both at capacity)
PubSubConnection(pCount, sCount) ==
  IF pCount < maxChannelsPerConnection /\ pCount <= sCount THEN "primary"
  ELSE IF sCount < maxChannelsPerConnection THEN "secondary"
  ELSE "none"

\* the subscriber's handler without its test of this.channels.has: a
\* variant against which the handling of a known channel is tested
RedisMessageAlwaysJoining ==
  /\ pubsub # <<>>
  /\ BagCardinality(tasks) < MaxTasks
  /\ pubsub' = Tail(pubsub)
  /\ LET data == Head(pubsub)
         channelLogin == data.channel_login
         connection == PubSubConnection(primaryCount, secondaryCount)
     IN  IF data.type = "config_update" /\ channelLogin # ""
         THEN /\ configCache' = MapDelete(configCache, channelLogin)
              /\ IF TRUE
                 THEN /\ expectedChannels' = SetAdd(expectedChannels, channelLogin)
                      /\ IF connection # "none"
                         THEN /\ joined' = JoinedAfter(connection, channelLogin)
                              /\ joinLog' = JoinLogAfter(connection)
                              /\ channels' = MapSet(channels, channelLogin,
                                   [primary |-> connection = "primary",
                                    secondary |-> connection = "secondary"])
                         ELSE UNCHANGED <<joined, joinLog, channels>>
                      /\ IF existingChannels # {}
                            /\ channelLogin \notin existingChannels
                         THEN /\ tasks' = tasks (+) SetToBag({FollowTask(channelLogin)})
                              /\ followLog' = FollowLogAfter(channelLogin)
                         ELSE UNCHANGED <<tasks, followLog>>
                 ELSE UNCHANGED <<expectedChannels, joined, joinLog, channels,
                                  tasks, followLog>>
         ELSE UNCHANGED <<configCache, expectedChannels, joined, joinLog,
                          channels, tasks, followLog>>
  /\ UNCHANGED <<rankCache, now, supervisor, currentToken, inbox, banLog, calc, handlers, existingChannels, shardState,
                 serverConfig, writes, acked, lastSay>>

\* The subscriber's message handler, up to its await of followChannel.
RedisMessage ==
  /\ pubsub # <<>>
  /\ BagCardinality(tasks) < MaxTasks
  /\ pubsub' = Tail(pubsub)
  /\ LET data == Head(pubsub)
         channelLogin == data.channel_login
         connection == PubSubConnection(primaryCount, secondaryCount)
     IN  IF data.type = "config_update" /\ channelLogin # ""
         THEN /\ configCache' = MapDelete(configCache, channelLogin)
              /\ IF ~MapHas(channels, channelLogin)
                 THEN /\ expectedChannels' = SetAdd(expectedChannels, channelLogin)
                      /\ IF connection # "none"
                         THEN /\ joined' = JoinedAfter(connection, channelLogin)
                              /\ joinLog' = JoinLogAfter(connection)
                              /\ channels' = MapSet(channels, channelLogin,
                                   [primary |-> connection = "primary",
                                    secondary |-> connection = "secondary"])
                         ELSE UNCHANGED <<joined, joinLog, channels>>
                      /\ IF existingChannels # {}
                            /\ channelLogin \notin existingChannels
                         THEN /\ tasks' = tasks (+) SetToBag({FollowTask(channelLogin)})
                              /\ followLog' = FollowLogAfter(channelLogin)
                         ELSE UNCHANGED <<tasks, followLog>>
                 ELSE UNCHANGED <<expectedChannels, joined, joinLog, channels,
                                  tasks, followLog>>
         ELSE UNCHANGED <<configCache, expectedChannels, joined, joinLog,
                          channels, tasks, followLog>>
  /\ UNCHANGED <<rankCache, now, supervisor, currentToken, inbox, banLog, calc, handlers, existingChannels, shardState,
                 serverConfig, writes, acked, lastSay>>

\* followChannel returns in the subscriber's handler
FollowResume(t) ==
  /\ t \in BagToSet(tasks)
  /\ t.kind = "follow"
  /\ existingChannels' = existingChannels \cup {t.list[1]}
  /\ tasks' = tasks (-) SetToBag({t})
  /\ UNCHANGED <<configCache, rankCache, now, supervisor, currentToken, inbox, banLog, calc, handlers, channels,
                 expectedChannels, shardState, joined, serverConfig, writes,
                 pubsub, acked, joinLog, lastSay, followLog>>

\* ------------------------------------------------------------ loadChannels
\* One iteration of loadChannels' join loops, for position t.i, up to its
\* await (followChannel for a new channel, else the 667 ms delay).
\* `map` and `existing` are this.channels and this.existingChannels as the
\* iteration finds them, `log` the follow history before its follow call.
\* Sets tasks, channels, joined, joinLog, followLog.
LoadIteration(old, t, map, existing, log) ==
  LET channel == t.list[t.i]
      connection == LoadConn(t.i)
      shouldFollow == ~t.first /\ channel \notin existing
  IN  /\ joined' = JoinedAfter(connection, channel)
      /\ joinLog' = JoinLogAfter(connection)
      /\ channels' = MapSet(map, channel,
           [primary |-> connection = "primary",
            secondary |-> connection = "secondary"])
      /\ IF shouldFollow
         THEN /\ followLog' = FollowLogged(log, channel)
              /\ tasks' = (tasks (-) SetToBag({old})) (+)
                   SetToBag({[t EXCEPT !.pc = "loadFollow"]})
         ELSE /\ followLog' = log
              /\ tasks' = (tasks (-) SetToBag({old})) (+)
                   SetToBag({[t EXCEPT !.pc = "loadDelay", !.wait = TRUE]})

\* fetch(/channels) returns in loadChannels: a failure is caught and logged;
\* on success the expected set is replaced, the map cleared and the first
\* channel joined.
ChannelsFetchResume(t, ok, list) ==
  /\ t \in BagToSet(tasks)
  /\ t.kind = "load" /\ t.pc = "fetchChannels"
  /\ IF ~ok
     THEN /\ tasks' = tasks (-) SetToBag({t})
          /\ UNCHANGED <<channels, expectedChannels, existingChannels, joined,
                         joinLog, followLog>>
     ELSE LET isFirstLoad == existingChannels = {}
              existing == IF isFirstLoad THEN SeqToSet(list)
                          ELSE existingChannels
              g == [t EXCEPT !.list = list, !.i = 1, !.first = isFirstLoad]
          IN  /\ expectedChannels' = list
              /\ existingChannels' = existing
              /\ IF LoadEnd(list) >= 1
                 THEN LoadIteration(t, g, EmptyMap, existing,
                                    FirstLoadLogged(list))
                 ELSE /\ channels' = EmptyMap
                      /\ tasks' = tasks (-) SetToBag({t})
                      /\ followLog' = FirstLoadLogged(list)
                      /\ UNCHANGED <<joined, joinLog>>
  /\ UNCHANGED <<configCache, rankCache, now, supervisor, currentToken, inbox, banLog, calc, handlers, shardState,
                 serverConfig, writes, pubsub, acked, lastSay>>

\* followChannel returns in loadChannels: the channel is marked known and
\* the 667 ms delay starts
LoadFollowResume(t) ==
  /\ t \in BagToSet(tasks)
  /\ t.kind = "load" /\ t.pc = "loadFollow"
  /\ existingChannels' = existingChannels \cup {t.list[t.i]}
  /\ tasks' = (tasks (-) SetToBag({t})) (+)
       SetToBag({[t EXCEPT !.pc = "loadDelay", !.wait = TRUE]})
  /\ UNCHANGED <<configCache, rankCache, now, supervisor, currentToken, inbox, banLog, calc, handlers, channels,
                 expectedChannels, shardState, joined, serverConfig, writes,
                 pubsub, acked, joinLog, lastSay, followLog>>

\* the 667 ms delay is over: the next iteration, or the end of loadChannels
LoadDelayResume(t) ==
  /\ t \in BagToSet(tasks)
  /\ t.kind = "load" /\ t.pc = "loadDelay" /\ ~t.wait
  /\ IF t.i + 1 <= LoadEnd(t.list)
     THEN LoadIteration(t, [t EXCEPT !.i = t.i + 1], channels,
                        existingChannels, followLog)
     ELSE /\ tasks' = tasks (-) SetToBag({t})
          /\ UNCHANGED <<channels, joined, joinLog, followLog>>
  /\ UNCHANGED <<configCache, rankCache, now, supervisor, currentToken, inbox, banLog, calc, handlers, expectedChannels,
                 existingChannels, shardState, serverConfig, writes, pubsub,
                 acked, lastSay>>

\* ------------------------------------------------ secondary restore loop
\* One iteration of the restore loop of the secondary's registered handler;
\* joinedAfter is the sessions' state after its JOIN.
\* Sets tasks, channels, joined, joinLog.
RestoreIteration(old, t, joinedAfter) ==
  LET channel == t.list[t.i]
      existing == IF MapHas(channels, channel) THEN channels[channel]
                  ELSE [primary |-> FALSE, secondary |-> FALSE]
  IN  /\ joined' = joinedAfter
      /\ joinLog' = JoinLogAfter("secondary")
      /\ channels' = MapSet(channels, channel,
                            [existing EXCEPT !.secondary = TRUE])
      /\ tasks' = (tasks (-) SetToBag({old})) (+)
           SetToBag({[t EXCEPT !.pc = "restoreDelay", !.wait = TRUE]})

\* the 667 ms delay is over: the next iteration, or the end of the loop
RestoreDelayResume(t) ==
  /\ t \in BagToSet(tasks)
  /\ t.kind = "restore" /\ t.pc = "restoreDelay" /\ ~t.wait
  /\ IF t.i + 1 <= Len(t.list)
     THEN RestoreIteration(t, [t EXCEPT !.i = t.i + 1],
                           JoinedAfter("secondary", t.list[t.i + 1]))
     ELSE /\ tasks' = tasks (-) SetToBag({t})
          /\ UNCHANGED <<channels, joined, joinLog>>
  /\ UNCHANGED <<configCache, rankCache, now, supervisor, currentToken, inbox, banLog, calc, handlers, expectedChannels,
                 existingChannels, shardState, serverConfig, writes, pubsub,
                 acked, lastSay, followLog>>

\* ------------------------------------------------------- shard lifecycle
\* error.message.includes('Token refresh - reconnecting') on the messages
\* the program's errors carry
QuitMessage == "Token refresh - reconnecting"

IncludesQuitMessage(message) == message = QuitMessage

\* the Error each 'close' listener builds, and the event it is built for;
\* cause is not a field of the program's: it records why the session ended
CloseEvent(connection, cause) ==
  [conn |-> connection, type |-> "close", cause |-> cause,
   message |-> IF connection = "primary" THEN "Primary connection closed"
               ELSE "Secondary connection closed"]

\* an 'error' event of a client, with the library's message
ErrorEvent(connection, cause) ==
  [conn |-> connection, type |-> "error", cause |-> cause,
   message |-> "socket error"]

\* the events one connection failure raises: close, or error then close
FailureEvents(connection) ==
  {<<CloseEvent(connection, "failure")>>,
   <<ErrorEvent(connection, "failure"), CloseEvent(connection, "failure")>>}

\* a setTimeout pending; config is the connectionConfig its callback
\* captured, Null when it reads this.currentToken itself
Timer(kind, connection, delay) ==
  [kind |-> kind, conn |-> connection, delay |-> delay, config |-> Null]

\* client.connect with the credential as password, counted since the
\* client's session last ended
Connected(sup, connection, password) ==
  [sup EXCEPT !.connects[connection] = IF @ < 2 THEN @ + 1 ELSE @,
              !.password[connection] = password]

\* The primary's registered handler, up to loadChannels' await of /channels
RegisteredPrimary ==
  /\ shardState["primary"] = "connecting"
  /\ BagCardinality(tasks) < MaxTasks
  /\ shardState' = [shardState EXCEPT !["primary"] = "registered"]
  /\ supervisor' = IF supervisor = Off THEN Off
                   ELSE [supervisor EXCEPT !.reconnectAttempts = 0]
  /\ tasks' = tasks (+) SetToBag({Task("load", "fetchChannels", <<>>, 0, FALSE)})
  /\ UNCHANGED <<configCache, rankCache, now, currentToken, inbox, banLog, calc, handlers, channels,
                 expectedChannels, existingChannels, joined, serverConfig,
                 writes, pubsub, acked, joinLog, lastSay, followLog>>

\* The secondary's registered handler, up to the restore loop's first delay
RegisteredSecondary ==
  /\ shardState["secondary"] = "connecting"
  /\ BagCardinality(tasks) < MaxTasks
  /\ shardState' = [shardState EXCEPT !["secondary"] = "registered"]
  /\ IF Len(expectedChannels) > maxChannelsPerConnection
     THEN LET secondaryChannels ==
                SliceFrom(expectedChannels, maxChannelsPerConnection)
              t == Task("restore", "restoreDelay", secondaryChannels, 1, FALSE)
          IN  RestoreIteration(t, t,
                [joined EXCEPT !["secondary"] = @ \cup {secondaryChannels[1]}])
     ELSE UNCHANGED <<tasks, channels, joined, joinLog>>
  /\ UNCHANGED <<configCache, rankCache, now, supervisor, currentToken, inbox, banLog, calc, handlers, expectedChannels,
                 existingChannels, serverConfig, writes, pubsub, acked,
                 lastSay, followLog>>

\* The session of a client ends (socket closed by either side); the client
\* raises its events.
Close(connection) ==
  /\ shardState[connection] = "registered"
  /\ shardState' = [shardState EXCEPT ![connection] = "closed"]
  /\ joined' = [joined EXCEPT ![connection] = {}]
  /\ IF supervisor = Off THEN UNCHANGED supervisor
     ELSE /\ supervisor.failures < MaxFailures
          /\ \E raised \in FailureEvents(connection) :
            supervisor' = [supervisor EXCEPT
              !.failures = @ + 1,
              !.events = @ \o raised,
              !.connects[connection] = 0,
              !.endedBy[connection] = "failure"]
  /\ UNCHANGED <<configCache, rankCache, now, currentToken, inbox, banLog, calc, handlers, channels,
                 expectedChannels, existingChannels, tasks, serverConfig,
                 writes, pubsub, acked, joinLog, lastSay, followLog>>

\* handleConnectionError, run by the 'error' or 'close' listener for the
\* oldest event pending, up to its setTimeout
OnConnectionEvent ==
  /\ supervisor # Off
  /\ supervisor.events # <<>>
  /\ LET e == Head(supervisor.events)
         delay == Min(BaseReconnectDelay * 2 ^ supervisor.reconnectAttempts,
                      maxReconnectDelay)
     IN  IF IncludesQuitMessage(e.message)
         THEN supervisor' = [supervisor EXCEPT !.events = Tail(@)]
         ELSE /\ supervisor.reconnectAttempts < MaxAttempts
              /\ supervisor' = [supervisor EXCEPT
                   !.events = Tail(@),
                   !.reconnectAttempts = @ + 1,
                   !.timers = @ (+) SetToBag({Timer("reconnect", e.conn, delay)})]
  /\ UNCHANGED <<configCache, rankCache, now, currentToken, inbox, banLog, calc, handlers, channels,
                 expectedChannels, existingChannels, tasks, shardState, joined,
                 serverConfig, writes, pubsub, acked, joinLog, lastSay,
                 followLog>>

\* handleConnectionError's timer fires: the token is fetched and stored
\* when there is one (the control plane never hands out an older
\* credential), then client.connect
Reconnect(connection) ==
  IF supervisor = Off
  THEN /\ shardState[connection] = "closed"
       /\ shardState' = [shardState EXCEPT ![connection] = "connecting"]
       /\ UNCHANGED <<configCache, rankCache, now, supervisor, currentToken, inbox, banLog, calc, handlers, channels,
                      expectedChannels, existingChannels, tasks, joined,
                      serverConfig, writes, pubsub, acked, joinLog, lastSay,
                      followLog>>
  ELSE /\ \E k \in currentToken..MaxTokens : currentToken' = k
       /\ \E t \in BagToSet(supervisor.timers) :
            /\ t.kind = "reconnect" /\ t.conn = connection
            /\ supervisor' = Connected(
                 [supervisor EXCEPT !.timers = @ (-) SetToBag({t})],
                 connection, currentToken')
       /\ shardState' = [shardState EXCEPT ![connection] = "connecting"]
       /\ joined' = [joined EXCEPT ![connection] = {}]
       /\ UNCHANGED <<configCache, rankCache, now, inbox, banLog, calc, handlers, channels,
                      expectedChannels, existingChannels, tasks,
                      serverConfig, writes, pubsub, acked, joinLog, lastSay,
                      followLog>>

\* refreshToken without its comparison of the old and the new token: a
\* variant against which the rotation's condition is tested
RefreshTokenAlwaysReconnects(tokenData) ==
  /\ IF tokenData = Null
     THEN UNCHANGED <<currentToken, shardState, joined, supervisor>>
     ELSE /\ currentToken' = tokenData.token
          /\ IF TRUE
             THEN /\ shardState' = [c \in Conns |->
                       IF shardState[c] = "registered" THEN "closed"
                       ELSE shardState[c]]
                  /\ joined' = [c \in Conns |->
                       IF shardState[c] = "registered" THEN {} ELSE joined[c]]
                  /\ supervisor' =
                       IF supervisor = Off THEN Off
                       ELSE LET quit(c) == shardState[c] = "registered"
                            IN  [supervisor EXCEPT
                                  !.events = @
                                    \o (IF quit("primary")
                                        THEN <<CloseEvent("primary", "quit")>>
                                        ELSE <<>>)
                                    \o (IF quit("secondary")
                                        THEN <<CloseEvent("secondary", "quit")>>
                                        ELSE <<>>),
                                  !.timers = @ (+) SetToBag(
                                    {Timer("connectToTwitch", "", 2000)}),
                                  !.connects = [c \in Conns |->
                                    IF quit(c) THEN 0 ELSE @[c]],
                                  !.endedBy = [c \in Conns |->
                                    IF quit(c) THEN "quit" ELSE @[c]]]
             ELSE UNCHANGED <<shardState, joined, supervisor>>
  /\ UNCHANGED <<configCache, rankCache, now, inbox, banLog, calc, handlers,
                 channels, expectedChannels, existingChannels, tasks,
                 serverConfig, writes, pubsub, acked, joinLog, lastSay,
                 followLog>>

\* refreshToken, for each answer of GET /token: null, the current
\* credential, or a new one. A new credential is stored and both clients
\* quit, which ends their sessions and raises their close events; the
\* connectToTwitch that follows after 2 s is a timer.
RefreshToken(tokenData) ==
  /\ IF tokenData = Null
     THEN UNCHANGED <<currentToken, shardState, joined, supervisor>>
     ELSE /\ currentToken' = tokenData.token
          /\ IF tokenData.token # currentToken
             THEN /\ shardState' = [c \in Conns |->
                       IF shardState[c] = "registered" THEN "closed"
                       ELSE shardState[c]]
                  /\ joined' = [c \in Conns |->
                       IF shardState[c] = "registered" THEN {} ELSE joined[c]]
                  /\ supervisor' =
                       IF supervisor = Off THEN Off
                       ELSE LET quit(c) == shardState[c] = "registered"
                            IN  [supervisor EXCEPT
                                  !.events = @
                                    \o (IF quit("primary")
                                        THEN <<CloseEvent("primary", "quit")>>
                                        ELSE <<>>)
                                    \o (IF quit("secondary")
                                        THEN <<CloseEvent("secondary", "quit")>>
                                        ELSE <<>>),
                                  !.timers = @ (+) SetToBag(
                                    {Timer("connectToTwitch", "", 2000)}),
                                  !.connects = [c \in Conns |->
                                    IF quit(c) THEN 0 ELSE @[c]],
                                  !.endedBy = [c \in Conns |->
                                    IF quit(c) THEN "quit" ELSE @[c]]]
             ELSE UNCHANGED <<shardState, joined, supervisor>>
  /\ UNCHANGED <<configCache, rankCache, now, inbox, banLog, calc, handlers,
                 channels, expectedChannels, existingChannels, tasks,
                 serverConfig, writes, pubsub, acked, joinLog, lastSay,
                 followLog>>

\* a timer that ends in client.connect on one client fires: connectToTwitch
\* builds connectionConfig from this.currentToken, connects the primary and
\* sets the timer of the secondary's connect with the same connectionConfig
ConnectTimer(t) ==
  /\ supervisor # Off
  /\ t \in BagToSet(supervisor.timers)
  /\ t.kind \in {"connectToTwitch", "secondaryConnect"}
  /\ LET connection == IF t.kind = "connectToTwitch" THEN "primary"
                       ELSE "secondary"
         connectionConfig == IF t.kind = "connectToTwitch"
                             THEN [password |-> currentToken]
                             ELSE t.config
         rest == supervisor.timers (-) SetToBag({t})
     IN  /\ supervisor' = Connected(
              [supervisor EXCEPT !.timers =
                 IF t.kind = "connectToTwitch"
                 THEN rest (+) SetToBag(
                        {[Timer("secondaryConnect", "", 2000)
                            EXCEPT !.config = connectionConfig]})
                 ELSE rest], connection, connectionConfig.password)
         /\ shardState' = [shardState EXCEPT ![connection] = "connecting"]
         /\ joined' = [joined EXCEPT ![connection] = {}]
  /\ UNCHANGED <<configCache, rankCache, now, currentToken, inbox, banLog, calc, handlers, channels,
                 expectedChannels, existingChannels, tasks,
                 serverConfig, writes, pubsub, acked, joinLog, lastSay,
                 followLog>>

\* One join interval (667 ms) passes: every pending 667 ms delay is over
\* and the join windows slide by one interval.
Expired(t) == [t EXCEPT !.wait = FALSE]

BagOfExpired(b) ==
  [g \in {Expired(t) : t \in BagToSet(b)} |->
     LET same == {t \in BagToSet(b) : Expired(t) = g}
         RECURSIVE Sum(_)
         Sum(S) == IF S = {} THEN 0
                   ELSE LET x == CHOOSE y \in S : TRUE
                        IN  CopiesIn(x, b) + Sum(S \ {x})
     IN  Sum(same)]

Slide(log) == <<0>> \o SubSeq(log, 1, JoinWindow - 1)

JoinTick ==
  /\ \/ \E t \in BagToSet(tasks) : t.wait
     \/ /\ joinLog # Off
        /\ \E c \in Conns : joinLog[c] # [i \in 1..JoinWindow |-> 0]
  /\ tasks' = BagOfExpired(tasks)
  /\ joinLog' = IF joinLog = Off THEN Off
                ELSE [c \in Conns |-> Slide(joinLog[c])]
  /\ UNCHANGED <<configCache, rankCache, now, supervisor, currentToken, inbox, banLog, calc, handlers, channels,
                 expectedChannels, existingChannels, shardState, joined,
                 serverConfig, writes, pubsub, acked, lastSay, followLog>>

\* ------------------------------------------------------------ input sets
AllChannels == {"c1", "c2", "c3", "c4", "c5"}

\* an author with one role marker, or none
Author(nick, marker, parts) ==
  Event(nick,
        IF marker \in {"broadcaster", "moderator", "vip", "subscriber", "founder"}
          THEN {marker} ELSE {},
        IF marker = "mod=1" THEN "1" ELSE "0",
        IF marker = "subscriber=1" THEN "1" ELSE "0",
        IF marker = "vip=1" THEN "1" ELSE "0",
        IF marker = "user-type=mod" THEN "mod" ELSE "",
        parts)

Markers == {"none", "broadcaster", "moderator", "vip", "subscriber", "founder",
            "mod=1", "subscriber=1", "vip=1", "user-type=mod"}

\* chat lines on channel c1: every role marker on a viewer, the broadcaster
\* and the super-admin without any marker
ChatEvents ==
  {Author("alice", m, <<"hi">>) : m \in Markers}
    \cup {Author("c1", "none", <<"hi">>), Author("yomata1", "none", <<"hi">>)}

CommandLines ==
  {<<"!eloward">>, <<"!eloward", "help">>, <<"!eloward", "on">>,
   <<"!eloward", "off">>, <<"!eloward", "mode", "has_rank">>,
   <<"!eloward", "mode", "min_rank">>, <<"!eloward", "mode", "x">>,
   <<"!eloward", "status">>, <<"!eloward", "dance">>, <<"!commands">>}

CommandEvents ==
  {Author("alice", m, p) : m \in {"none", "moderator"}, p \in CommandLines}

InitPolicies ==
  {Null, Policy(FALSE, "has_rank", "", "", 0),
   Policy(TRUE, "has_rank", "", "", 0),
   Policy(TRUE, "min_rank", "GOLD", "IV", 0)}

\* a policy the control plane returns without reason templates
WithoutTemplates(policy) ==
  [policy EXCEPT !.reason_has_rank = "", !.reason_min_rank = ""]

RankDatas == {Null, RankData("GOLD", "II"), RankData("SILVER", "I")}

DashboardFields == {[bot_enabled |-> TRUE], [bot_enabled |-> FALSE]}

\* ---------------------------------------------------------- specifications
\* The command interpreter on one joined channel, replies recorded: the
\* privileged commands from each kind of author (SpecCmd), and the set
\* subcommands from a moderator (SpecSet).
SetLines ==
  {<<"!eloward", "set", "timeout", n>> :
     n \in DOMAIN IntegerLiterals \cup {"Infinity", "abc"}}
    \cup {<<"!eloward", "set", "timeout">>, <<"!eloward", "SET", "Timeout", "45">>,
          <<"!eloward", "set", "min_rank">>, <<"!eloward", "set", "min_rank", "wood", "2">>,
          <<"!eloward", "set", "min_rank", "gold">>,
          <<"!eloward", "set", "min_rank", "gold", "5">>,
          <<"!eloward", "set", "min_rank", "gold", "2">>,
          <<"!eloward", "set", "min_rank", "Gold", "iv">>,
          <<"!eloward", "set", "min_rank", "master", "iv">>,
          <<"!eloward", "set", "min_rank", "challenger">>,
          <<"!eloward", "set", "reason", "rank", "up">>,
          <<"!eloward", "set", "reason", "\"\"">>,
          <<"!eloward", "set", "reason">>, <<"!eloward", "set", "x">>}

MutatingLines ==
  {<<"!eloward", "on">>, <<"!eloward", "off">>, <<"!eloward", "mode", "min_rank">>,
   <<"!eloward", "status">>, <<"!eloward", "set", "timeout", "45">>,
   <<"!eloward", "set", "min_rank", "gold", "2">>}

CmdEvents ==
  {Author("alice", m, p) : m \in Markers, p \in MutatingLines}
    \cup {Author(n, "none", p) : n \in {"c1", "yomata1"}, p \in MutatingLines}

SetEvents == {Author("mod1", "moderator", p) : p \in SetLines}

InitCmd ==
  /\ configCache = EmptyMap
  /\ rankCache = EmptyMap
  /\ now = 0
  /\ supervisor = Off
  /\ currentToken = 0
  /\ inbox = Off
  /\ banLog = Off
  /\ calc = Off
  /\ handlers = EmptyBag
  /\ channels = MapSet(EmptyMap, "c1", [primary |-> TRUE, secondary |-> FALSE])
  /\ expectedChannels = <<"c1">>
  /\ existingChannels = {"c1"}
  /\ tasks = EmptyBag
  /\ shardState = [c \in Conns |-> "registered"]
  /\ joined = [c \in Conns |-> IF c = "primary" THEN {"c1"} ELSE {}]
  /\ \E p \in {Null, Policy(TRUE, "min_rank", "GOLD", "IV", 0)} :
       serverConfig = [c \in AllChannels |-> IF c = "c1" THEN p ELSE Null]
  /\ writes = 0
  /\ pubsub = <<>>
  /\ acked = Off
  /\ joinLog = Off
  /\ lastSay = Null
  /\ followLog = Off

NextCmd ==
  \/ /\ BagCardinality(handlers) < MaxHotHandlers
     /\ \E ev \in CmdEvents : HandleMessage(ev, "c1", "primary")
  \/ \E h \in BagToSet(handlers), o \in {"ok", "5xx"} : ConfigGetServe(h, o)
  \/ \E h \in BagToSet(handlers), o \in {"ok", "5xx"} : ConfigUpdateServe(h, o)
  \/ \E h \in BagToSet(handlers) : ConfigUpdateResume(h)
  \/ \E h \in BagToSet(handlers) : CurrentConfigResume(h)
  \/ RedisMessage

SpecCmd == InitCmd /\ [][NextCmd]_vars

NextSet ==
  \/ /\ BagCardinality(handlers) < MaxHotHandlers
     /\ \E ev \in SetEvents : HandleMessage(ev, "c1", "primary")
  \/ \E h \in BagToSet(handlers), o \in {"ok", "5xx"} : ConfigGetServe(h, o)
  \/ \E h \in BagToSet(handlers), o \in {"ok", "5xx"} : ConfigUpdateServe(h, o)
  \/ \E h \in BagToSet(handlers) : ConfigUpdateResume(h)
  \/ \E h \in BagToSet(handlers) : CurrentConfigResume(h)
  \/ RedisMessage

SpecSet == InitCmd /\ [][NextSet]_vars

\* Two commands of a moderator in flight on one joined channel: one line
\* of each mutating kind.
OrderLines ==
  {<<"!eloward", "on">>, <<"!eloward", "off">>,
   <<"!eloward", "mode", "has_rank">>,
   <<"!eloward", "set", "timeout", "45">>,
   <<"!eloward", "set", "min_rank", "gold", "2">>,
   <<"!eloward", "set", "reason", "rank", "up">>}

NextOrder ==
  \/ /\ BagCardinality(handlers) < MaxHandlers
     /\ \E p \in OrderLines :
          HandleMessage(Author("mod1", "moderator", p), "c1", "primary")
  \/ \E h \in BagToSet(handlers), o \in {"ok", "5xx"} : ConfigGetServe(h, o)
  \/ \E h \in BagToSet(handlers), o \in {"ok", "5xx"} : ConfigUpdateServe(h, o)
  \/ \E h \in BagToSet(handlers) : ConfigUpdateResume(h)
  \/ \E h \in BagToSet(handlers) : CurrentConfigResume(h)
  \/ RedisMessage

SpecOrder == InitCmd /\ [][NextOrder]_vars

\* The hot path on one joined channel: both clients registered, c1 loaded
\* on the primary, the control plane holding any initial policy for it.
InitHot ==
  /\ configCache = EmptyMap
  /\ rankCache = EmptyMap
  /\ now = 0
  /\ supervisor = Off
  /\ currentToken = 0
  /\ inbox = Off
  /\ banLog = Off
  /\ calc = Off
  /\ handlers = EmptyBag
  /\ channels = MapSet(EmptyMap, "c1", [primary |-> TRUE, secondary |-> FALSE])
  /\ expectedChannels = <<"c1">>
  /\ existingChannels = {"c1"}
  /\ tasks = EmptyBag
  /\ shardState = [c \in Conns |-> "registered"]
  /\ joined = [c \in Conns |-> IF c = "primary" THEN {"c1"} ELSE {}]
  /\ \E p \in InitPolicies :
       serverConfig = [c \in AllChannels |-> IF c = "c1" THEN p ELSE Null]
  /\ writes = 0
  /\ pubsub = <<>>
  /\ acked = Off
  /\ joinLog = Off
  /\ lastSay = Off
  /\ followLog = Off

NextHot ==
  \/ /\ BagCardinality(handlers) < MaxHotHandlers
     /\ \E ev \in ChatEvents \cup CommandEvents : HandleMessage(ev, "c1", "primary")
  \/ \E h \in BagToSet(handlers), o \in {"ok", "5xx", "neterr"} : ConfigGetServe(h, o)
  \/ \E h \in BagToSet(handlers) : ConfigFetchResume(h)
  \/ \E h \in BagToSet(handlers), o \in {"ok", "404", "5xx", "neterr"},
        d \in RankDatas : RankFetchResume(h, o, d)
  \/ \E h \in BagToSet(handlers), o \in {"ok", "missing", "failed", "401"} :
       UserInfoResume(h, o)
  \/ \E h \in BagToSet(handlers), o \in {"listed", "notlisted", "failed", "401"} :
       ModCheckResume(h, o)
  \/ \E h \in BagToSet(handlers) : BansResume(h)
  \/ \E h \in BagToSet(handlers), o \in {"ok", "5xx", "neterr"} : ConfigUpdateServe(h, o)
  \/ \E h \in BagToSet(handlers) : ConfigUpdateResume(h)
  \/ \E h \in BagToSet(handlers) : CurrentConfigResume(h)
  \/ \E f \in DashboardFields : DashboardWrite("c1", f)
  \/ RedisMessage
  \/ ClockTick
  \/ ConfigSweep

SpecHot == InitHot /\ [][NextHot]_vars

\* Commands racing with enforcement on one channel: as the hot path, with
\* two invocations in flight, and the acknowledged writes recorded.
CfgEvents ==
  {Event("alice", {}, "0", "0", "0", "", <<"hello">>),
   Event("mod1", {"moderator"}, "1", "0", "0", "mod", <<"!eloward", "off">>),
   Event("mod1", {"moderator"}, "1", "0", "0", "mod", <<"!eloward", "on">>)}

InitCfg ==
  /\ configCache = EmptyMap
  /\ rankCache = EmptyMap
  /\ now = 0
  /\ supervisor = Off
  /\ currentToken = 0
  /\ inbox = Off
  /\ banLog = Off
  /\ calc = Off
  /\ handlers = EmptyBag
  /\ channels = MapSet(EmptyMap, "c1", [primary |-> TRUE, secondary |-> FALSE])
  /\ expectedChannels = <<"c1">>
  /\ existingChannels = {"c1"}
  /\ tasks = EmptyBag
  /\ shardState = [c \in Conns |-> "registered"]
  /\ joined = [c \in Conns |-> IF c = "primary" THEN {"c1"} ELSE {}]
  /\ serverConfig = [c \in AllChannels |->
       IF c = "c1" THEN Policy(TRUE, "has_rank", "", "", 0) ELSE Null]
  /\ writes = 0
  /\ pubsub = <<>>
  /\ acked = [c \in AllChannels |-> 0]
  /\ joinLog = Off
  /\ lastSay = Off
  /\ followLog = Off

NextCfg ==
  \/ /\ BagCardinality(handlers) < MaxHandlers
     /\ \E ev \in CfgEvents : HandleMessage(ev, "c1", "primary")
  \/ \E h \in BagToSet(handlers), o \in {"ok", "5xx"} : ConfigGetServe(h, o)
  \/ \E h \in BagToSet(handlers) : ConfigFetchResume(h)
  \/ \E h \in BagToSet(handlers), o \in {"ok", "404"} : RankFetchResume(h, o, Null)
  \/ \E h \in BagToSet(handlers), o \in {"ok", "failed"} : UserInfoResume(h, o)
  \/ \E h \in BagToSet(handlers), o \in {"listed", "notlisted"} : ModCheckResume(h, o)
  \/ \E h \in BagToSet(handlers) : BansResume(h)
  \/ \E h \in BagToSet(handlers), o \in {"ok", "5xx"} : ConfigUpdateServe(h, o)
  \/ \E h \in BagToSet(handlers) : ConfigUpdateResume(h)
  \/ \E h \in BagToSet(handlers) : CurrentConfigResume(h)
  \/ RedisMessage

SpecCfg == InitCfg /\ [][NextCfg]_vars

\* The join scheduler from boot: both clients connecting, nothing loaded.
\* /channels answers with one of ShardLists, the dashboard enables the bot
\* on the channels of PubChannels, viewers ask for help on joined channels.
ShardLists == {<<"c1">>, <<"c1", "c2", "c3">>}

PubChannels == {"c2", "c3"}

HelpEvent == Event("alice", {}, "0", "0", "0", "", <<"!eloward", "help">>)

InitShard ==
  /\ configCache = EmptyMap
  /\ rankCache = EmptyMap
  /\ now = 0
  /\ supervisor = Off
  /\ currentToken = 0
  /\ inbox = Off
  /\ banLog = Off
  /\ calc = Off
  /\ handlers = EmptyBag
  /\ channels = EmptyMap
  /\ expectedChannels = <<>>
  /\ existingChannels = {}
  /\ tasks = EmptyBag
  /\ shardState = [c \in Conns |-> "connecting"]
  /\ joined = [c \in Conns |-> {}]
  /\ serverConfig = [c \in AllChannels |-> Null]
  /\ writes = 0
  /\ pubsub = <<>>
  /\ acked = Off
  /\ joinLog = Off
  /\ lastSay = Null
  /\ followLog = Off

NextShard ==
  \/ RegisteredPrimary
  \/ RegisteredSecondary
  \/ \E c \in Conns : Close(c)
  \/ \E c \in Conns : Reconnect(c)
  \/ \E t \in BagToSet(tasks), l \in ShardLists : ChannelsFetchResume(t, TRUE, l)
  \/ \E t \in BagToSet(tasks) : ChannelsFetchResume(t, FALSE, <<>>)
  \/ \E t \in BagToSet(tasks) : LoadFollowResume(t)
  \/ \E t \in BagToSet(tasks) : LoadDelayResume(t)
  \/ \E t \in BagToSet(tasks) : RestoreDelayResume(t)
  \/ \E t \in BagToSet(tasks) : FollowResume(t)
  \/ JoinTick
  \/ \E ch \in PubChannels : DashboardWrite(ch, [bot_enabled |-> TRUE])
  \/ RedisMessage
  \/ /\ BagCardinality(handlers) < MaxHotHandlers
     /\ \E ch \in AllChannels, c \in Conns :
          /\ isConnectionForChannel(ch, c)
          /\ HandleMessage(HelpEvent, ch, c)
  \/ \E h \in BagToSet(handlers) : SayDelayResume(h)

SpecShard == InitShard /\ [][NextShard]_vars

\* The join scheduler from boot with the JOINs of each client counted per
\* interval over the last JoinWindow intervals; both sessions stay up once
\* registered.
InitJoin ==
  /\ configCache = EmptyMap
  /\ rankCache = EmptyMap
  /\ now = 0
  /\ supervisor = Off
  /\ currentToken = 0
  /\ inbox = Off
  /\ banLog = Off
  /\ calc = Off
  /\ handlers = EmptyBag
  /\ channels = EmptyMap
  /\ expectedChannels = <<>>
  /\ existingChannels = {}
  /\ tasks = EmptyBag
  /\ shardState = [c \in Conns |-> "connecting"]
  /\ joined = [c \in Conns |-> {}]
  /\ serverConfig = [c \in AllChannels |-> Null]
  /\ writes = 0
  /\ pubsub = <<>>
  /\ acked = Off
  /\ joinLog = [c \in Conns |-> [i \in 1..JoinWindow |-> 0]]
  /\ lastSay = Off
  /\ followLog = Off

NextJoin ==
  \/ RegisteredPrimary
  \/ RegisteredSecondary
  \/ \E t \in BagToSet(tasks), l \in ShardLists : ChannelsFetchResume(t, TRUE, l)
  \/ \E t \in BagToSet(tasks) : LoadDelayResume(t)
  \/ \E t \in BagToSet(tasks) : RestoreDelayResume(t)
  \/ \E t \in BagToSet(tasks) : FollowResume(t)
  \/ JoinTick
  \/ \E ch \in PubChannels : DashboardWrite(ch, [bot_enabled |-> TRUE])
  \/ RedisMessage
  \/ /\ BagCardinality(handlers) < MaxHotHandlers
     /\ \E ch \in AllChannels, c \in Conns :
          /\ isConnectionForChannel(ch, c)
          /\ HandleMessage(HelpEvent, ch, c)
  \/ \E h \in BagToSet(handlers) : SayDelayResume(h)

SpecJoin == InitJoin /\ [][NextJoin]_vars

\* The pure functions of the rank comparator and of the decision, each
\* applied once to an input drawn by the initial state: no client is
\* connected and nothing else moves.
ValidTiers == DOMAIN tierValues
ValidDivisions == DOMAIN divisionValues

RankTierInputs == {"", "WOOD", "gold", "SILVER", "GOLD", "PLATINUM", "MASTER"}
RankDivisionInputs == {"", "I", "IV"}

RankResultInputs ==
  {[hasRank |-> FALSE, rankData |-> Null], [hasRank |-> TRUE, rankData |-> Null]}
    \cup {[hasRank |-> TRUE, rankData |-> RankData(t, d)] :
             t \in RankTierInputs, d \in RankDivisionInputs}

PolicyInputs ==
  {Policy(e, m, t, d, 0) :
     e \in BOOLEAN, m \in {"", "has_rank", "min_rank", "other"},
     t \in {"", "WOOD", "silver", "GOLD", "MASTER"}, d \in RankDivisionInputs}

Call(fn, args) == [fn |-> fn, args |-> args, done |-> FALSE, ret |-> Null]

InitRank ==
  /\ configCache = EmptyMap
  /\ rankCache = EmptyMap
  /\ now = 0
  /\ supervisor = Off
  /\ currentToken = 0
  /\ inbox = Off
  /\ banLog = Off
  /\ calc \in {Call("meetsMinimumRank", <<ut, ud, mt, md>>) :
                 ut \in ValidTiers, ud \in ValidDivisions,
                 mt \in ValidTiers, md \in ValidDivisions}
              \cup {Call("shouldTimeoutUser", <<r, c>>) :
                      r \in RankResultInputs, c \in PolicyInputs}
  /\ handlers = EmptyBag
  /\ channels = EmptyMap
  /\ expectedChannels = <<>>
  /\ existingChannels = {}
  /\ tasks = EmptyBag
  /\ shardState = [c \in Conns |-> "connecting"]
  /\ joined = [c \in Conns |-> {}]
  /\ serverConfig = [c \in AllChannels |-> Null]
  /\ writes = 0
  /\ pubsub = <<>>
  /\ acked = Off
  /\ joinLog = Off
  /\ lastSay = Off
  /\ followLog = Off

Return(value) ==
  /\ calc' = [calc EXCEPT !.done = TRUE, !.ret = value]
  /\ UNCHANGED <<configCache, rankCache, now, supervisor, currentToken, inbox, banLog, handlers, channels,
                 expectedChannels, existingChannels, tasks, shardState, joined,
                 serverConfig, writes, pubsub, acked, joinLog, lastSay,
                 followLog>>

CallMeetsMinimumRank ==
  /\ calc # Off
  /\ calc.fn = "meetsMinimumRank"
  /\ ~calc.done
  /\ Return(meetsMinimumRank(calc.args[1], calc.args[2],
                             calc.args[3], calc.args[4]))

CallShouldTimeoutUser ==
  /\ calc # Off
  /\ calc.fn = "shouldTimeoutUser"
  /\ ~calc.done
  /\ Return(shouldTimeoutUser(calc.args[1], calc.args[2]))

NextRank ==
  \/ CallMeetsMinimumRank
  \/ CallShouldTimeoutUser

SpecRank == InitRank /\ [][NextRank]_vars

\* Credential rotation in the steady state: both clients registered, the
\* list [c1] loaded and joined on the primary, no coroutine suspended. The
\* control plane answers every request; sessions end only by rotation.
TokenAnswers ==
  {Null} \cup {[token |-> k] : k \in 0..MaxTokens}

InitRotate ==
  /\ configCache = EmptyMap
  /\ rankCache = EmptyMap
  /\ now = 0
  /\ supervisor = Off
  /\ currentToken = 0
  /\ inbox = Off
  /\ banLog = Off
  /\ calc = Off
  /\ handlers = EmptyBag
  /\ channels = MapSet(EmptyMap, "c1", [primary |-> TRUE, secondary |-> FALSE])
  /\ expectedChannels = <<"c1">>
  /\ existingChannels = {"c1"}
  /\ tasks = EmptyBag
  /\ shardState = [c \in Conns |-> "registered"]
  /\ joined = [c \in Conns |-> IF c = "primary" THEN {"c1"} ELSE {}]
  /\ serverConfig = [c \in AllChannels |-> Null]
  /\ writes = 0
  /\ pubsub = <<>>
  /\ acked = Off
  /\ joinLog = Off
  /\ lastSay = Off
  /\ followLog = Off

NextRotate ==
  \/ \E d \in TokenAnswers : RefreshToken(d)
  \/ \E c \in Conns : Reconnect(c)
  \/ RegisteredPrimary
  \/ RegisteredSecondary
  \/ \E t \in BagToSet(tasks), l \in ShardLists : ChannelsFetchResume(t, TRUE, l)
  \/ \E t \in BagToSet(tasks) : LoadFollowResume(t)
  \/ \E t \in BagToSet(tasks) : LoadDelayResume(t)
  \/ \E t \in BagToSet(tasks) : RestoreDelayResume(t)
  \/ \E t \in BagToSet(tasks) : FollowResume(t)
  \/ JoinTick
  \/ \E ch \in PubChannels : DashboardWrite(ch, [bot_enabled |-> TRUE])
  \/ RedisMessage

SpecRotate == InitRotate /\ [][NextRotate]_vars

\* A channel JOINed on both sessions: c2 was joined on the primary by a
\* pub/sub event, a reload of [c1] cleared the map without a PART, and a
\* second pub/sub event for c2 recorded and joined it on the secondary.
\* Chat lines are delivered to every session that joined their channel.
DualEvents ==
  {Event("dan", {}, "0", "0", "0", "", <<"hello">>),
   Event("dan", {}, "0", "0", "0", "", <<"!eloward">>),
   Event("mod1", {"moderator"}, "1", "0", "0", "mod", <<"!eloward", "off">>)}

InitDual ==
  /\ configCache = EmptyMap
  /\ rankCache = EmptyMap
  /\ now = 0
  /\ supervisor = Off
  /\ currentToken = 0
  /\ inbox = [sent |-> 0, primary |-> <<>>, secondary |-> <<>>]
  /\ banLog = [posts |-> EmptyBag]
  /\ calc = Off
  /\ handlers = EmptyBag
  /\ channels = MapSet(MapSet(EmptyMap,
                  "c1", [primary |-> TRUE, secondary |-> FALSE]),
                  "c2", [primary |-> FALSE, secondary |-> TRUE])
  /\ expectedChannels = <<"c1", "c2">>
  /\ existingChannels = {"c1", "c2"}
  /\ tasks = EmptyBag
  /\ shardState = [c \in Conns |-> "registered"]
  /\ joined = [c \in Conns |-> IF c = "primary" THEN {"c1", "c2"} ELSE {"c2"}]
  /\ \E p \in (InitPolicies \ {Null})
                \cup {WithoutTemplates(Policy(TRUE, "has_rank", "", "", 0))} :
       serverConfig = [c \in AllChannels |-> IF c = "c2" THEN p ELSE Null]
  /\ writes = 0
  /\ pubsub = <<>>
  /\ acked = Off
  /\ joinLog = Off
  /\ lastSay = Null
  /\ followLog = Off

NextDual ==
  \/ \E ev \in DualEvents : Privmsg(ev, "c2")
  \/ /\ BagCardinality(handlers) < MaxHandlers
     /\ \E c \in Conns : OnPrivmsg(c)
  \/ \E h \in BagToSet(handlers), o \in {"ok", "5xx"} : ConfigGetServe(h, o)
  \/ \E h \in BagToSet(handlers) : ConfigFetchResume(h)
  \/ \E h \in BagToSet(handlers), o \in {"ok", "404"} : RankFetchResume(h, o, Null)
  \/ \E h \in BagToSet(handlers), o \in {"ok", "failed"} : UserInfoResume(h, o)
  \/ \E h \in BagToSet(handlers), o \in {"listed", "notlisted"} : ModCheckResume(h, o)
  \/ \E h \in BagToSet(handlers) : BansResume(h)
  \/ \E h \in BagToSet(handlers), o \in {"ok", "5xx"} : ConfigUpdateServe(h, o)
  \/ \E h \in BagToSet(handlers) : ConfigUpdateResume(h)
  \/ \E h \in BagToSet(handlers) : CurrentConfigResume(h)
  \/ RedisMessage

SpecDual == InitDual /\ [][NextDual]_vars

\* The follow calls of the join scheduler from boot, recorded with the list
\* of the first successful /channels fetch. /channels answers with one of
\* FollowLists or fails, the primary's session may end and come back (which
\* runs loadChannels again), and the dashboard enables the bot on c2.
FollowLists == {<<>>, <<"c1">>, <<"c1", "c2">>}

InitFollow ==
  /\ configCache = EmptyMap
  /\ rankCache = EmptyMap
  /\ now = 0
  /\ supervisor = Off
  /\ currentToken = 0
  /\ inbox = Off
  /\ banLog = Off
  /\ calc = Off
  /\ handlers = EmptyBag
  /\ channels = EmptyMap
  /\ expectedChannels = <<>>
  /\ existingChannels = {}
  /\ tasks = EmptyBag
  /\ shardState = [c \in Conns |-> "connecting"]
  /\ joined = [c \in Conns |-> {}]
  /\ serverConfig = [c \in AllChannels |-> Null]
  /\ writes = 0
  /\ pubsub = <<>>
  /\ acked = Off
  /\ joinLog = Off
  /\ lastSay = Off
  /\ followLog = [calls |-> EmptyBag, loaded |-> FALSE, first |-> {}]

NextFollow ==
  \/ RegisteredPrimary
  \/ RegisteredSecondary
  \/ Close("primary")
  \/ Reconnect("primary")
  \/ \E t \in BagToSet(tasks), l \in FollowLists : ChannelsFetchResume(t, TRUE, l)
  \/ \E t \in BagToSet(tasks) : ChannelsFetchResume(t, FALSE, <<>>)
  \/ \E t \in BagToSet(tasks) : LoadFollowResume(t)
  \/ \E t \in BagToSet(tasks) : LoadDelayResume(t)
  \/ \E t \in BagToSet(tasks) : FollowResume(t)
  \/ JoinTick
  \/ DashboardWrite("c2", [bot_enabled |-> TRUE])
  \/ RedisMessage

SpecFollow == InitFollow /\ [][NextFollow]_vars

\* One invalidation event delivered twice, in each of the states the join
\* scheduler rests in after loading 0, 1, 3 and 4 channels (capacity 2 per
\* shard): the event names a loaded channel or a channel enabled since,
\* the config cache holds the channel's policy or nothing, and the
\* secondary is registered or still connecting.
LoadedLists == {<<>>, <<"c1">>, <<"c1", "c2", "c3">>, <<"c1", "c2", "c3", "c4">>}

\* this.channels and the sessions after loadChannels has walked list
MapAfterLoad(list) ==
  [c \in SeqToSet(list) |->
     LET i == CHOOSE k \in 1..Len(list) : list[k] = c
     IN  [primary |-> LoadConn(i) = "primary",
          secondary |-> LoadConn(i) = "secondary"]]

InitTwice ==
  /\ \E ch \in {"c1", "c4", "c5"}, cached \in BOOLEAN :
       /\ pubsub = <<InvalidationEvent(ch), InvalidationEvent(ch)>>
       /\ configCache = IF cached
                        THEN setCachedConfig(EmptyMap, ch,
                               Policy(TRUE, "has_rank", "", "", 0))
                        ELSE EmptyMap
  /\ rankCache = EmptyMap
  /\ now = 0
  /\ supervisor = Off
  /\ currentToken = 0
  /\ inbox = Off
  /\ banLog = Off
  /\ calc = Off
  /\ handlers = EmptyBag
  /\ shardState \in [Conns -> {"registered", "connecting"}]
  /\ shardState["primary"] = "registered"
  /\ \E list \in LoadedLists :
       /\ expectedChannels = list
       /\ existingChannels = SeqToSet(list)
       /\ channels = MapAfterLoad(list)
       /\ joined = [c \in Conns |->
            IF shardState[c] = "registered"
            THEN {x \in SeqToSet(list) : MapAfterLoad(list)[x][c]} ELSE {}]
       /\ followLog = [calls |-> EmptyBag, loaded |-> TRUE,
                       first |-> SeqToSet(list)]
  /\ tasks = EmptyBag
  /\ serverConfig = [c \in AllChannels |-> Null]
  /\ writes = 0
  /\ acked = Off
  /\ joinLog = Off
  /\ lastSay = Off

NextTwice ==
  \/ RedisMessage
  \/ \E t \in BagToSet(tasks) : FollowResume(t)

SpecTwice == InitTwice /\ [][NextTwice]_vars

\* The subscriber alone, fed with whatever the pub/sub channel can carry:
\* two messages of either type, for a channel of the membership map (c1),
\* a channel outside it (c2) or none, with or without fields. The config
\* cache holds c1's policy and the rank cache holds an entry.
PubSubMessages ==
  [type : {"config_update", "rank_update"},
   channel_login : {"c1", "c2", ""},
   fields : {Null, [bot_enabled |-> TRUE], [bot_enabled |-> FALSE]}]

InitEvents ==
  /\ pubsub \in [1..2 -> PubSubMessages]
  /\ \E enabled \in BOOLEAN :
       configCache = setCachedConfig(EmptyMap, "c1",
                       Policy(enabled, "has_rank", "", "", 0))
  /\ now = 0
  /\ rankCache = setCachedRank(EmptyMap, "alice", TRUE, RankData("GOLD", "II"))
  /\ supervisor = Off
  /\ currentToken = 0
  /\ inbox = Off
  /\ banLog = Off
  /\ calc = Off
  /\ handlers = EmptyBag
  /\ shardState = [c \in Conns |-> "registered"]
  /\ expectedChannels = <<"c1">>
  /\ existingChannels = {"c1"}
  /\ channels = MapAfterLoad(<<"c1">>)
  /\ joined = [c \in Conns |-> IF c = "primary" THEN {"c1"} ELSE {}]
  /\ followLog = [calls |-> EmptyBag, loaded |-> TRUE, first |-> {"c1"}]
  /\ tasks = EmptyBag
  /\ serverConfig = [c \in AllChannels |-> Null]
  /\ writes = 0
  /\ acked = Off
  /\ joinLog = [c \in Conns |-> [i \in 1..JoinWindow |-> 0]]
  /\ lastSay = Off

SpecEvents == InitEvents /\ [][NextTwice]_vars

\* The reconnection supervisor followed in detail, in a steady state: the
\* list [c1] was loaded on the primary and a pub/sub event put c2 on the
\* secondary, both sessions have joined their channels. Sessions end by a
\* connection failure or by a rotation, the clients raise their events,
\* and every connect is a timer; /channels answers [c1, c2] or fails. The control
\* plane answers every request and never hands out an older credential.
InitSupervise ==
  /\ configCache = EmptyMap
  /\ rankCache = EmptyMap
  /\ now = 0
  /\ supervisor = [reconnectAttempts |-> 0, events |-> <<>>,
                   timers |-> EmptyBag, failures |-> 0,
                   connects |-> [c \in Conns |-> 0],
                   password |-> [c \in Conns |-> 0],
                   endedBy |-> [c \in Conns |-> "none"]]
  /\ currentToken = 0
  /\ inbox = Off
  /\ banLog = Off
  /\ calc = Off
  /\ handlers = EmptyBag
  /\ channels = MapSet(MapSet(EmptyMap,
                  "c1", [primary |-> TRUE, secondary |-> FALSE]),
                  "c2", [primary |-> FALSE, secondary |-> TRUE])
  /\ expectedChannels = <<"c1", "c2">>
  /\ existingChannels = {"c1", "c2"}
  /\ tasks = EmptyBag
  /\ shardState = [c \in Conns |-> "registered"]
  /\ joined = [c \in Conns |-> IF c = "primary" THEN {"c1"} ELSE {"c2"}]
  /\ serverConfig = [c \in AllChannels |-> Null]
  /\ writes = 0
  /\ pubsub = <<>>
  /\ acked = Off
  /\ joinLog = Off
  /\ lastSay = Off
  /\ followLog = Off

NextSupervise ==
  \/ \E d \in {Null} \cup {[token |-> k] : k \in currentToken..MaxTokens} :
       RefreshToken(d)
  \/ \E c \in Conns : Close(c)
  \/ OnConnectionEvent
  \/ \E c \in Conns : Reconnect(c)
  \/ \E t \in BagToSet(supervisor.timers) : ConnectTimer(t)
  \/ RegisteredPrimary
  \/ RegisteredSecondary
  \/ \E t \in BagToSet(tasks) : ChannelsFetchResume(t, TRUE, <<"c1", "c2">>)
  \/ \E t \in BagToSet(tasks) : ChannelsFetchResume(t, FALSE, <<>>)
  \/ \E t \in BagToSet(tasks) : LoadDelayResume(t)
  \/ JoinTick

SpecSupervise == InitSupervise /\ [][NextSupervise]_vars

\* ------------------------------------------------------------ properties
\* the author classes the contract names as enforcement-exempt
ExemptAuthor(event, channelLogin) ==
  \/ event.nick = channelLogin
  \/ event.badges \cap {"broadcaster", "moderator", "subscriber", "founder"} # {}
  \/ event.mod = "1"
  \/ event.subscriber = "1"
  \/ event.nick \in superAdmins

\* the requests of the enforcement path that follow the policy read
RankLookupPcs == {"fetchUserRank"}
ModerationPcs == {"getTwitchUserInfo", "isModeratorViaHelix", "postBans"}

C2_StandbyIssuesNothing ==
  \A h \in BagToSet(handlers) :
    h.pc \in RankLookupPcs \cup ModerationPcs =>
      Truthy(h.config) /\ h.config.bot_enabled

\* a non-exempt author with a live no-rank cache entry writes on a channel
\* whose policy has just been read as disabled or absent
C2_Witness ==
  \E h \in BagToSet(handlers) :
    /\ ~isUserEnforcementExempt(h.ev, h.ch)
    /\ h.pc = "fetchChannelConfig"
    /\ h.resp # Null
    /\ \/ h.resp.status = "404"
       \/ h.resp.status = "ok" /\ ~h.resp.body.bot_enabled
    /\ Truthy(getCachedRank(h.ev.nick))
    /\ ~getCachedRank(h.ev.nick).hasRank

\* C3: a message whose config-get or rank-get failed transiently has no
\* moderation request in flight.
C3_TransientFailureAllows ==
  \A h \in BagToSet(handlers) :
    (h.cfgOut \in {"5xx", "neterr"} \/ h.rankOut \in {"5xx", "neterr"}) =>
      h.pc \notin ModerationPcs

\* C4: a rank-get that fails at transport level leaves the rank cache as
\* it was.
C4_TransportFailureNotCached ==
  [][\A h \in BagToSet(handlers) :
       RankFetchResume(h, "neterr", Null) => rankCache' = rankCache]_vars

\* C5: once updateChannelConfig has returned success for a channel and
\* the invalidations published so far have been delivered, the policy the
\* config cache holds for that channel (the one the next enforcement
\* decision reads) was read at or after that write.
C5_NoStaleConfigAfterUpdate ==
  pubsub = <<>> =>
    \A ch \in DOMAIN configCache :
      Truthy(configCache[ch].config) =>
        configCache[ch].config.version >= acked[ch]

\* a loadChannels run or a restore loop is under way
JoinLoopInProgress ==
  \E t \in BagToSet(tasks) : t.kind \in {"load", "restore"}

\* C6: whenever no join loop is in progress, every channel of the expected
\* set has a membership entry with exactly one of the two shards set.
C6_ExpectedOnExactlyOneShard ==
  ~JoinLoopInProgress =>
    \A c \in SeqToSet(expectedChannels) :
      /\ MapHas(channels, c)
      /\ channels[c].primary # channels[c].secondary

\* C7: the membership map assigns at most maxChannelsPerConnection
\* channels to each shard.
C7_ShardWithinCapacity ==
  /\ primaryCount <= maxChannelsPerConnection
  /\ secondaryCount <= maxChannelsPerConnection

\* C9: a reply is said on a client of a shard on which the membership map
\* records the channel at the time of the say.
C9_SayOnRecordedShard ==
  (lastSay # Null /\ lastSay.entry # Null
     /\ (lastSay.entry.primary \/ lastSay.entry.secondary)) =>
    lastSay.entry[lastSay.client]

\* C10: a channel joined on both shards has exactly one command owner, so
\* a command line delivered on both is interpreted once.
C10_OneCommandOwner ==
  \A ch \in joined["primary"] \cap joined["secondary"] :
    Cardinality({c \in Conns : isConnectionForChannel(ch, c)}) = 1

\* the JOINs a client issued in the last JoinWindow intervals
RECURSIVE SumSeq(_)
SumSeq(q) == IF q = <<>> THEN 0 ELSE Head(q) + SumSeq(Tail(q))

\* C8: on each shard, at most JoinLimit JOINs are issued in any window of
\* JoinWindow join intervals (the program's 15 JOINs in 10 seconds), all
\* sources counted together.
C8_JoinRateWithinLimit ==
  \A c \in Conns : SumSeq(joinLog[c]) <= JoinLimit

\* ------------------------------------------------------------------ C11
\* the calls of the enforcement path and the command path of handleMessage
LookupPcs == {"fetchChannelConfig", "getCurrentConfig"} \cup RankLookupPcs
ReplyPcs == {"sayDelay"}
WritePcs == {"updateChannelConfig"}

\* C11: a line that starts with the command prefix and is received on a
\* client that is not the owner of its channel is dropped: no invocation
\* of handleMessage for such a line is ever suspended in a config or rank
\* lookup, a config write, a reply or a moderation call.
C11_NonOwnerCommandDropped ==
  \A h \in BagToSet(handlers) :
    (Head(h.ev.parts) = "!eloward" /\ ~isConnectionForChannel(h.ch, h.conn))
      => h.pc \notin LookupPcs \cup WritePcs \cup ReplyPcs \cup ModerationPcs

\* ------------------------------------------------------------------ C15
\* C15: each chat line results in at most one POST to the bans endpoint in
\* total, across both clients.
C15_AtMostOneBanPerLine ==
  banLog # Off =>
    \A r \in BagToSet(banLog.posts) :
      /\ CopiesIn(r, banLog.posts) = 1
      /\ \A q \in BagToSet(banLog.posts) : q.line = r.line => q = r

\* ------------------------------------------------------------------ C12
\* the rank cache entry of user u in cache `cache` is younger than its TTL
\* at time t
FreshRank(cache, t, u) ==
  /\ MapHas(cache, u)
  /\ t - cache[u].storedAt < (IF cache[u].hasRank THEN PositiveTtlMs
                              ELSE NegativeTtlMs)

\* C12: getCachedRank never returns an entry 60 s or more (user has a
\* rank) or 30 s or more (user has no rank) after it was stored; and a
\* message of a non-exempt author that arrives, on an enabled cached
\* policy, while the author's entry is that old or older starts a new
\* rank-get, whether or not the sweeper has deleted the entry.
C12_RankNotServedPastTtl ==
  [][/\ \A u \in DOMAIN rankCache' :
          Truthy(getCachedRank(u))' => FreshRank(rankCache', now', u)
     /\ \A ev \in ChatEvents :
          (/\ HandleMessage(ev, "c1", "primary")
           /\ Truthy(getCachedConfig(configCache, "c1"))
           /\ getCachedConfig(configCache, "c1").bot_enabled
           /\ ~isUserEnforcementExempt(ev, "c1")
           /\ ~FreshRank(rankCache, now, ev.nick))
            => \E h \in BagToSet(handlers') :
                 h.ev = ev /\ h.pc = "fetchUserRank"]_vars

\* a rank-get is in flight for an author whose entry, stored with a rank
\* 60 s ago, is still in the cache
C12_Witness ==
  \E h \in BagToSet(handlers) :
    /\ h.pc = "fetchUserRank"
    /\ MapHas(rankCache, h.ev.nick)
    /\ rankCache[h.ev.nick].hasRank
    /\ now - rankCache[h.ev.nick].storedAt >= PositiveTtlMs

\* ------------------------------------------------------------------ C13
\* the documented weight of a valid rank: 100 x the tier's index plus the
\* division's weight, the division counting 0 for MASTER and above
TierOrder ==
  <<"IRON", "BRONZE", "SILVER", "GOLD", "PLATINUM", "EMERALD", "DIAMOND",
    "MASTER", "GRANDMASTER", "CHALLENGER">>

TierIndex(tier) == (CHOOSE i \in 1..Len(TierOrder) : TierOrder[i] = tier) - 1

Weight(tier, division) ==
  100 * TierIndex(tier)
    + (IF TierIndex(tier) >= 7 THEN 0
       ELSE IF division = "IV" THEN 0
       ELSE IF division = "III" THEN 25
       ELSE IF division = "II" THEN 50
       ELSE 75)

\* C13: for valid ranks a and b, meetsMinimumRank(a, a) is true, one of
\* meetsMinimumRank(a, b) and meetsMinimumRank(b, a) is true, and
\* meetsMinimumRank(a, b) is the comparison weight(a) >= weight(b).
C13_OrderTotalAndWeighted ==
  (calc # Off /\ calc.fn = "meetsMinimumRank" /\ calc.done) =>
    LET a == <<calc.args[1], calc.args[2]>>
        b == <<calc.args[3], calc.args[4]>>
    IN  /\ calc.ret = (Weight(a[1], a[2]) >= Weight(b[1], b[2]))
        /\ a = b => calc.ret
        /\ calc.ret \/ meetsMinimumRank(b[1], b[2], a[1], a[2])

\* the comparator has answered for the same rank on both sides
C13_Witness ==
  /\ calc # Off
  /\ calc.fn = "meetsMinimumRank"
  /\ calc.done
  /\ calc.args = <<"GOLD", "II", "GOLD", "II">>
  /\ calc.ret

\* ------------------------------------------------------------------ C14
KnownTier(tier) == toUpperCase(tier) \in ValidTiers

C16_NoDefaultReasonPosted ==
  banLog # Off =>
    \A r \in BagToSet(banLog.posts) : r.reason # ConfigurationErrorReason

\* ------------------------------------------------------------------ C17
\* C17: after a rotation of the credential, once both clients have
\* registered again and no join loop is in progress, every channel of the
\* expected set is JOINed on the session of each shard the membership map
\* records it on.
C17_RejoinedAfterRotation ==
  (/\ currentToken > 0
   /\ \A c \in Conns : shardState[c] = "registered"
   /\ ~JoinLoopInProgress)
    => \A ch \in SeqToSet(expectedChannels) :
         MapHas(channels, ch) =>
           \A c \in Conns : channels[ch][c] => ch \in joined[c]

\* ------------------------------------------------------------------ C18
\* the author classes the contract names as command-privileged
PrivilegedAuthor(event, channelLogin) ==
  \/ event.nick = channelLogin
  \/ event.badges \cap {"broadcaster", "moderator"} # {}
  \/ event.mod = "1"
  \/ event.userType = "mod"
  \/ event.nick \in superAdmins

\* C18: a config-update is in flight only for a command of a broadcaster,
\* moderator or super-admin; an on / off / mode / set / status line of any
\* other author (subscribers and VIPs included) is answered with the
\* permission-denied reply, suspends no request and changes no cache entry
\* and no policy.
C18_UpdateOnlyByPrivileged ==
  [][/\ \A h \in BagToSet(handlers') :
          h.pc = "updateChannelConfig" => PrivilegedAuthor(h.ev, h.ch)
     /\ \A ev \in CmdEvents :
          (~PrivilegedAuthor(ev, "c1") /\ HandleMessage(ev, "c1", "primary"))
            => /\ lastSay'.text = "no_permission"
               /\ handlers' = handlers
               /\ configCache' = configCache
               /\ rankCache' = rankCache
               /\ serverConfig' = serverConfig]_vars

\* a command was denied while the control plane already held a policy
\* written by a privileged command
C18_Witness ==
  /\ lastSay # Null
  /\ lastSay # Off
  /\ lastSay.text = "no_permission"
  /\ writes > 0
  /\ handlers = EmptyBag

\* ------------------------------------------------------------------ C19
\* C19: a config-update issued by `set timeout N` carries a timeout in
\* [1, 1209600], and for an integer N the value min(max(N, 1), 1209600).
C19_TimeoutClamped ==
  \A h \in BagToSet(handlers) :
    (h.pc = "updateChannelConfig" /\ h.cmd = "set_timeout") =>
      LET arg == h.ev.parts[4]
          sent == h.updates.timeout_seconds
      IN  /\ Truthy(sent)
          /\ sent.num \in MinTimeoutSeconds..MaxTimeoutSeconds
          /\ arg \in DOMAIN IntegerLiterals =>
               sent.num = Min(Max(IntegerLiterals[arg], MinTimeoutSeconds),
                              MaxTimeoutSeconds)

\* ------------------------------------------------------------------ C20
\* the set min_rank lines that name a valid rank, with the rank each names
MinRankOfLine ==
  <<"!eloward", "set", "min_rank", "gold", "2">> :> <<"GOLD", "II">>
    @@ <<"!eloward", "set", "min_rank", "Gold", "iv">> :> <<"GOLD", "IV">>
    @@ <<"!eloward", "set", "min_rank", "master", "iv">> :> <<"MASTER", "I">>
    @@ <<"!eloward", "set", "min_rank", "challenger">> :> <<"CHALLENGER", "I">>

\* the replies of a rejected set min_rank line
MinRankRejections ==
  {"usage_min_rank", "invalid_tier", "requires_division", "invalid_division"}

\* C20: every config-update of set min_rank carries one of the ten tiers
\* and a division in {I, II, III, IV}, the division being I for MASTER,
\* GRANDMASTER and CHALLENGER whatever was typed; a line with an invalid
\* tier, or with a lower tier and a missing or invalid division, gets a
\* usage or error reply, suspends no request and leaves the policy and the
\* cache unchanged.
C20_MinRankValidated ==
  [][/\ \A h \in BagToSet(handlers') :
          (h.pc = "updateChannelConfig" /\ h.cmd = "set_min_rank") =>
            /\ h.updates.min_rank_tier \in DOMAIN tierValues
            /\ h.updates.min_rank_division \in {"I", "II", "III", "IV"}
            /\ h.updates.min_rank_tier \in {"MASTER", "GRANDMASTER", "CHALLENGER"}
                 => h.updates.min_rank_division = "I"
            /\ h.ev.parts \in DOMAIN MinRankOfLine
            /\ <<h.updates.min_rank_tier, h.updates.min_rank_division>>
                 = MinRankOfLine[h.ev.parts]
     /\ \A ev \in SetEvents :
          (/\ Len(ev.parts) >= 3
           /\ ev.parts[3] = "min_rank"
           /\ ev.parts \notin DOMAIN MinRankOfLine
           /\ HandleMessage(ev, "c1", "primary"))
            => /\ lastSay'.text \in MinRankRejections
               /\ handlers' = handlers
               /\ configCache' = configCache
               /\ serverConfig' = serverConfig]_vars

\* `set min_rank master iv` is on its way to config-update as (MASTER, I)
C20_Witness ==
  \E h \in BagToSet(handlers) :
    /\ h.pc = "updateChannelConfig"
    /\ h.ev.parts = <<"!eloward", "set", "min_rank", "master", "iv">>
    /\ h.updates = [min_rank_tier |-> "MASTER", min_rank_division |-> "I"]

\* C21: a config-update that `set reason` has in flight carries exactly one
\* field, the reason template of the mode the channel had when the line was
\* received: reason_min_rank under min_rank, reason_has_rank under has_rank.
C21_ReasonWritesActiveTemplate ==
  \A h \in BagToSet(handlers) :
    h.cmd = "set_reason" /\ h.pc = "updateChannelConfig" =>
      DOMAIN h.updates = {IF h.received = "min_rank" THEN "reason_min_rank"
                          ELSE "reason_has_rank"}

\* C22: when the subscriber handles a config_update for a channel the
\* membership map does not hold and a shard is below capacity, the channel
\* is in the expected set afterwards, the map records it on one shard
\* alone, a shard below capacity that no other shard below capacity
\* undercuts, and the JOIN goes to that client and to no other.
BelowCapacity ==
  {c \in Conns :
     Cardinality({x \in DOMAIN channels : channels[x][c]})
       < maxChannelsPerConnection}

LeastLoaded ==
  {c \in BelowCapacity :
     \A d \in BelowCapacity :
       Cardinality({x \in DOMAIN channels : channels[x][c]})
         <= Cardinality({x \in DOMAIN channels : channels[x][d]})}

C22_NewChannelOnLessLoadedShard ==
  [][(/\ pubsub # <<>>
      /\ RedisMessage
      /\ ~MapHas(channels, Head(pubsub).channel_login)
      /\ BelowCapacity # {})
     => LET ch == Head(pubsub).channel_login
        IN  /\ ch \in SeqToSet(expectedChannels')
            /\ \E target \in LeastLoaded :
                 /\ channels' = MapSet(channels, ch,
                      [c \in Conns |-> c = target])
                 /\ \A c \in Conns :
                      joined'[c] =
                        IF c = target /\ shardState[c] = "registered"
                        THEN joined[c] \cup {ch} ELSE joined[c]]_vars

\* the list [c1] is loaded on the primary and a pub/sub event has put c2
\* on the secondary, which carried fewer channels
C22_Witness ==
  /\ expectedChannels = <<"c1", "c2">>
  /\ MapHas(channels, "c2")
  /\ channels["c2"] = [primary |-> FALSE, secondary |-> TRUE]
  /\ channels["c1"] = [primary |-> TRUE, secondary |-> FALSE]
  /\ "c2" \in joined["secondary"]
  /\ "c2" \notin joined["primary"]

\* C23: the follow endpoint is never called twice for a channel and never
\* for a channel of the first load, and once the first load has happened
\* and neither an event nor a coroutine of the scheduler is pending, every
\* expected channel outside the first load has been followed once.
C23_FollowedExactlyOnce ==
  /\ \A c \in AllChannels : CopiesIn(c, followLog.calls) <= 1
  /\ \A c \in followLog.first : CopiesIn(c, followLog.calls) = 0
  /\ (followLog.loaded /\ tasks = EmptyBag /\ pubsub = <<>>) =>
       \A c \in SeqToSet(expectedChannels) \ followLog.first :
         CopiesIn(c, followLog.calls) = 1

\* C24: the second processing of a config_update event that has just been
\* processed changes neither the expected set, the membership map nor the
\* caches, sends no JOIN and calls the follow endpoint no further time.
C24_SecondProcessingChangesNothing ==
  [][(RedisMessage /\ pubsub = <<Head(pubsub)>>)
     => /\ expectedChannels' = expectedChannels
        /\ channels' = channels
        /\ configCache' = configCache
        /\ rankCache' = rankCache
        /\ joined' = joined
        /\ followLog' = followLog]_vars

\* C25: every request to the control plane that is in flight, the token
\* request excepted, carries the headers X-HMAC-Signature and X-Timestamp
\* that signRequest gives for its method, path and body.
C25_ControlPlaneRequestsSigned ==
  \A r \in RequestsInFlight :
    r.path # "/token" =>
      /\ {"X-HMAC-Signature", "X-Timestamp"} \subseteq DOMAIN r.headers
      /\ \A k \in {"X-HMAC-Signature", "X-Timestamp"} :
           r.headers[k] = signRequest(r.method, r.path, r.body)[k]

\* C26: when every published invalidation has been processed and no
\* coroutine of handleMessage is suspended on a request, the policy the
\* config cache holds for a channel, if any, is the one the control plane
\* committed last (compared field by field, the version number aside).
C26_CacheFreshAtRest ==
  (pubsub = <<>> /\ BagToSet(handlers) = {}) =>
    \A ch \in DOMAIN configCache :
      Truthy(configCache[ch].config) =>
        /\ Truthy(serverConfig[ch])
        /\ [configCache[ch].config EXCEPT !.version = 0]
             = [serverConfig[ch] EXCEPT !.version = 0]

\* C27: handleConnectionError, run for a close event that a rotation's quit
\* raised, leaves the attempt counter and the pending timers as they are,
\* and a client whose session a rotation ended has connect called on it at
\* most once.
C27_RotationCloseIsSilent ==
  [][/\ (/\ supervisor.events # <<>>
         /\ Head(supervisor.events).cause = "quit"
         /\ OnConnectionEvent)
        => /\ supervisor'.reconnectAttempts = supervisor.reconnectAttempts
           /\ supervisor'.timers = supervisor.timers
     /\ \A c \in Conns :
          supervisor'.endedBy[c] = "quit" => supervisor'.connects[c] <= 1]_vars

\* the reconnect timers pending for one client
PendingReconnects(connection) ==
  BagCardinality([t \in {x \in BagToSet(supervisor.timers) :
                           x.kind = "reconnect" /\ x.conn = connection}
                    |-> CopiesIn(t, supervisor.timers)])

\* C28: no client has more than one reconnect timer pending, the events of
\* one connection failure raise the attempt counter by one in all, and a
\* client whose session a failure ended has connect called on it at most
\* once.
C28_OneReconnectPerFailure ==
  /\ \A c \in Conns : PendingReconnects(c) <= 1
  /\ \A c \in Conns :
       supervisor.endedBy[c] = "failure" => supervisor.connects[c] <= 1

\* C29: once a client whose connection failed has registered again and
\* neither a connect, a client event nor a join loop is pending, every
\* channel the membership map records on that client is JOINed on its
\* session.
C29_RejoinedAfterFailure ==
  \A c \in Conns :
    (/\ supervisor.endedBy[c] = "failure"
     /\ shardState[c] = "registered"
     /\ supervisor.events = <<>>
     /\ BagToSet(supervisor.timers) = {}
     /\ BagToSet(tasks) = {})
    => \A ch \in DOMAIN channels : channels[ch][c] => ch \in joined[c]

\* C30: at no time is a channel JOINed on the live sessions of both
\* shards.
C30_NeverJoinedOnBothSessions ==
  \A ch \in AllChannels :
    ~(/\ shardState["primary"] = "registered"
      /\ shardState["secondary"] = "registered"
      /\ ch \in joined["primary"]
      /\ ch \in joined["secondary"])

\* ------------------------------------------------------------------ C31
\* the step records channelLogin on the client in the membership map,
\* which the subscriber, loadChannels and the restore loop each do next to
\* their call of that client's join
JoinIssued(connection, channelLogin) ==
  /\ MapHas(channels', channelLogin)
  /\ channels'[channelLogin][connection]
  /\ ~(MapHas(channels, channelLogin) /\ channels[channelLogin][connection])

\* C31: a JOIN is issued on a client only while its session is registered.
C31_JoinOnlyOnRegisteredShard ==
  [][\A c \in Conns : \A ch \in AllChannels :
       JoinIssued(c, ch) => shardState[c] = "registered"]_vars

\* ------------------------------------------------------------------ C32
\* min(2^k, 30) seconds, in the timers' milliseconds
ReconnectDelay(k) == Min(BaseReconnectDelay * 2 ^ k, maxReconnectDelay)

\* C32: the first reconnect handleConnectionError schedules for a failed
\* session is delayed by min(2^k, 30) seconds, k being the closures of that
\* shard since its last registration. A session of this model fails only
\* after it registered, so k is 0.
C32_DelayCountsOwnClosures ==
  [][(/\ supervisor.events # <<>>
      /\ Head(supervisor.events).cause = "failure"
      /\ PendingReconnects(Head(supervisor.events).conn) = 0
      /\ OnConnectionEvent)
     => supervisor'.timers = supervisor.timers (+) SetToBag(
          {Timer("reconnect", Head(supervisor.events).conn,
                 ReconnectDelay(0))})]_vars

\* ------------------------------------------------------------------ C33
\* C33: refreshToken leaves the credential, the sessions and the timers as
\* they are when GET /token fails or answers the current token; when it
\* answers another token it stores it, ends every registered session and
\* schedules connectToTwitch, which connects the primary with the
\* credential stored and then the secondary with the same one.
C33_RotationIffTokenDiffers ==
  [][/\ \A d \in TokenAnswers :
          RefreshToken(d) =>
            IF d # Null /\ d.token # currentToken
            THEN /\ currentToken' = d.token
                 /\ \A c \in Conns : shardState'[c] # "registered"
                 /\ supervisor'.timers = supervisor.timers (+)
                      SetToBag({Timer("connectToTwitch", "", 2000)})
            ELSE UNCHANGED <<currentToken, shardState, joined, supervisor>>
     /\ \A t \in (IF supervisor = Off THEN {}
                   ELSE BagToSet(supervisor.timers)) :
          ConnectTimer(t) =>
            IF t.kind = "connectToTwitch"
            THEN /\ shardState'["primary"] = "connecting"
                 /\ supervisor'.password["primary"] = currentToken
                 /\ \E u \in BagToSet(supervisor'.timers) :
                      /\ u.kind = "secondaryConnect"
                      /\ u.config = [password |-> currentToken]
            ELSE /\ shardState'["secondary"] = "connecting"
                 /\ supervisor'.password["secondary"] = t.config.password]_vars

\* a rotation is over: both sessions were ended by it, both clients have
\* registered again with the new credential and nothing is pending
C33_Witness ==
  /\ currentToken = MaxTokens
  /\ \A c \in Conns :
       /\ supervisor.endedBy[c] = "quit"
       /\ shardState[c] = "registered"
       /\ supervisor.password[c] = currentToken
  /\ supervisor.events = <<>>
  /\ BagToSet(supervisor.timers) = {}

\* ------------------------------------------------------------------ C34
\* the invocations of `after` that are not in `before`
NewHandlers(before, after) ==
  {g \in BagToSet(after) : CopiesIn(g, after) > CopiesIn(g, before)}

\* C34: an invocation comes to its POST to the bans endpoint only by the
\* return of its moderator check with the user not listed (or the check
\* failed), and to the moderator check only by the return of a users lookup
\* that held the three ids; a lookup that failed or missed an id, and a
\* moderator check that lists the user, end the invocation with no POST.
C34_BanOnlyAfterLookupAndModCheck ==
  [][/\ \A g \in NewHandlers(handlers, handlers') :
          /\ g.pc = "postBans" =>
                \E h \in BagToSet(handlers), o \in {"notlisted", "failed"} :
                  /\ h.pc = "isModeratorViaHelix"
                  /\ g = [h EXCEPT !.pc = "postBans"]
                  /\ ModCheckResume(h, o)
          /\ g.pc = "isModeratorViaHelix" =>
                \E h \in BagToSet(handlers) :
                  /\ h.pc = "getTwitchUserInfo"
                  /\ g = [h EXCEPT !.pc = "isModeratorViaHelix"]
                  /\ UserInfoResume(h, "ok")
     /\ \A h \in BagToSet(handlers) :
          /\ \A o \in {"missing", "failed"} :
                UserInfoResume(h, o) =>
                  handlers' = Remove(h) /\ banLog' = banLog
          /\ ModCheckResume(h, "listed") =>
                handlers' = Remove(h) /\ banLog' = banLog]_vars

\* an invocation is suspended at its POST to the bans endpoint
C34_Witness ==
  \E h \in BagToSet(handlers) :
    h.pc = "postBans" /\ ~isUserEnforcementExempt(h.ev, h.ch)

\* ------------------------------------------------------------------ C35
\* handleMessage's test of the config cache: the next message on the
\* channel is decided from the cache, with no config-get
ConfigCacheHit(cache, channelLogin) ==
  Truthy(getCachedConfig(cache, channelLogin))

\* C35: once the miss-fill has processed a 404 of config-get, the next
\* message on the channel is decided from the cache; once it has processed
\* any other failure, the next message issues config-get again.
C35_AbsenceCachedFailureNot ==
  [][\A h \in BagToSet(handlers) :
       (/\ h.pc = "fetchChannelConfig"
        /\ h.resp # Null
        /\ ConfigFetchResume(h))
       => /\ h.resp.status = "404" => ConfigCacheHit(configCache', h.ch)
          /\ h.resp.status \in {"5xx", "neterr"}
               => ~ConfigCacheHit(configCache', h.ch)]_vars

\* ------------------------------------------------------------------ C36
\* C36: when /channels answers a list without a channel the membership
\* map records on a shard, the channel leaves the map and that shard's
\* session (a PART); a channel of the list stays on every session that
\* had joined it.
C36_ReloadPartsRemovedChannels ==
  [][\A t \in BagToSet(tasks), l \in ShardLists :
       ChannelsFetchResume(t, TRUE, l) =>
         \A c \in Conns : \A ch \in AllChannels :
           /\ (/\ MapHas(channels, ch)
               /\ channels[ch][c]
               /\ ch \notin SeqToSet(l))
              => ~MapHas(channels', ch) /\ ch \notin joined'[c]
           /\ (ch \in SeqToSet(l) /\ ch \in joined[c])
              => ch \in joined'[c]]_vars

UpdateNotIssued(h) ==
  /\ h.cmd \in {"on", "off", "mode_has_rank", "mode_min_rank", "set_timeout",
                "set_min_rank", "set_reason"}
  /\ h.updates = Null

\* C38: when the config-update of a command is issued as the command is
\* received, no command received before it on the channel still has its
\* config-update to issue.
C38_UpdatesInReceiveOrder ==
  [][\A g \in NewHandlers(handlers, handlers') :
       (/\ BagCardinality(handlers') > BagCardinality(handlers)
        /\ g.pc = "updateChannelConfig")
       => \A h \in BagToSet(handlers) :
            h.ch = g.ch => ~UpdateNotIssued(h)]_vars

\* ------------------------------------------------------------------ C39
\* the replies that acknowledge a mutating command as done
SuccessTexts ==
  {"awake", "sleeping", "mode_has_rank", "mode_min_rank", "timeout_set",
   "min_rank_set", "reason_set"}

\* the status of the config-update response of invocation h, as the step
\* that says its reply finds it
UpdateStatus(h) ==
  IF h.pc = "updateChannelConfig" /\ h.resp # Null THEN h.resp.status
  ELSE h.cfgOut

\* C39: an invocation of a mutating command says a success reply only if
\* its config-update returned success.
C39_SuccessReplyOnlyAfterSuccess ==
  [][\A h \in BagToSet(handlers) :
       (/\ h.updates # Null
        /\ CopiesIn(h, handlers') < CopiesIn(h, handlers)
        /\ lastSay' # lastSay
        /\ lastSay'.text \in SuccessTexts)
       => UpdateStatus(h) = "ok"]_vars

\* ------------------------------------------------------------------ C40
\* the invocation goes on to refreshToken and to nothing else
RefreshTriggered(h) ==
  handlers' = Replace(h, [h EXCEPT !.pc = "refreshToken"])

\* C40: when the users lookup or the moderator check of an invocation is
\* answered 401 or 403, the invocation triggers refreshToken and sends no
\* further moderation request.
C40_AuthExpiredRefreshesAndAbandons ==
  [][\A h \in BagToSet(handlers) :
       /\ (h.pc = "isModeratorViaHelix" /\ ModCheckResume(h, "401"))
            => RefreshTriggered(h)
       /\ (h.pc = "getTwitchUserInfo" /\ UserInfoResume(h, "401"))
            => RefreshTriggered(h)]_vars

====
